---- MODULE Spec2Model ----
(***************************************************************************)
(* Offline-first score synchronisation of pong-vertical: the network       *)
(* monitor (lib/network.ts), the local SQLite score tables (lib/sqlite.ts),*)
(* the Firestore REST client (lib/firebase.ts) and the reconciliation      *)
(* engine (lib/sync.ts); the store handle (getDb), the room subscriptions  *)
(* (lib/realtime.ts, lib/matchmaking.ts) and the matchmaking screen.       *)
(* JavaScript runs one task at a time, so the code                         *)
(* between two awaits is one atomic step; every action below is the        *)
(* resolution of one awaited operation followed by the synchronous code    *)
(* that runs up to the next await.                                         *)
(***************************************************************************)
EXTENDS Integers, Sequences, FiniteSets, TLC

\* ------------------------------------------------------------------ bounds
MaxFtxIds == 1
MaxTaIds == 1
MaxTasks == 2
MaxSaves == 2
MaxLegacy == 1
MaxReads == 1
MaxHistoryReads == 2
MaxStored == 1
MaxDeletes == 1
MaxDrains == 2
MaxEnvFlips == 1
MaxRestarts == 1
MaxNetChanges == 2
MaxBoards == 1
MaxWins == 2
MaxPlayers == 2
MaxProfiles == 1
MaxRenames == 1
MaxStats == 1
MaxOld == 2
MaxApplies == 2

\* --------------------------------------------------------------- constants
AI_PLAYER_ID == "ai_computer"
FIREBASE_AI_PLAYER_ID == "ai_computer"

FtxIds == 1..MaxFtxIds
TaIds == (MaxFtxIds + 1)..(MaxFtxIds + MaxTaIds)
ScoreIds == FtxIds \cup TaIds
Tasks == 1..MaxTasks

\* The score id carries its kind (the code prefixes ids with ftx_ / ta_ and
\* keeps one table and one collection per kind).
\* Ids of the matches earlier sessions stored, MaxOld of each kind.
OldFtxIds == { 100 + k : k \in 1..MaxOld }
OldTaIds == { 200 + k : k \in 1..MaxOld }

KindOf(id) ==
  IF id \in FtxIds \cup OldFtxIds THEN "first_to_x" ELSE "time_attack"

\* Inputs of the save calls, as the screens issue them: a match against the
\* AI, and an online match whose room id is the dedupId.
FtxCalls ==
  { [kind |-> "first_to_x",
     playerId |-> "p1", opponentId |-> AI_PLAYER_ID, playerScore |-> 5,
     opponentScore |-> 3, winnerId |-> "p1", timeElapsed |-> 42,
     isOnlineMode |-> FALSE, dedup |-> FALSE],
    [kind |-> "first_to_x",
     playerId |-> "p1", opponentId |-> "p2", playerScore |-> 3,
     opponentScore |-> 5, winnerId |-> "p2", timeElapsed |-> 0,
     isOnlineMode |-> TRUE, dedup |-> TRUE] }

TaCalls ==
  { [kind |-> "time_attack",
     playerId |-> "p1", verdict |-> "LOSE", timeDuration |-> 30,
     isOnlineMode |-> FALSE, dedup |-> FALSE] }

SaveInputs == FtxCalls \cup TaCalls

VARIABLES
  rooms,          \* Realtime Database: /rooms, in key order
  match,          \* the matchmaking screen of each player's device
  poll,           \* the subscriptions pollRoom / rtSubscribeToRoom returned
  db,             \* sqlite.ts: let db (FALSE: null, TRUE: the opened handle)
  inits,          \* the activations of initDatabase, by the caller
  dbCalls,        \* the store calls that go through getDb
  net,            \* the device's real connectivity (what NetInfo observes)
  remoteMode,     \* "ok" | "reject" (HTTP error answers) | "down" (fetch throws)
  envFlips,       \* number of environment changes so far
  netEvents,      \* NetInfo change events not yet delivered to the listener
  isConnected,    \* network.ts: let isConnected
  scores,         \* sqlite: scores_first_to_x and scores_time_attack, by id
  players,        \* sqlite: players, by player id
  pendingDeleted, \* sqlite: pending_deleted_scores, the ids
  remote,         \* Firestore score documents [id, data]; by is a history
                  \* field naming the code path that created the document
  remoteUsers,    \* Firestore users/<id>: the profile documents, by id
  pendingQueue,   \* sync.ts: let pendingQueue
  syncing,        \* sync.ts: let syncing
  drains,         \* the executing syncPendingScores activations
  tasks,          \* the executing calls of the exported functions
  started,        \* how many calls of each exported function have started,
                  \* and (boot) how many times the process was started again
  usedIds,        \* the ids createScoreId generated, the dedupIds it was given
  now,            \* the last value Date.now() returned
  hist            \* history record, read by the properties only:
                  \*   owed      offline->online changes not yet notified
                  \*   dropped   a drain request was dropped by the guard
                  \*   submitted the payloads the save calls built, by id
                  \*   offline   the ids whose last save found the network off
                  \*   confirmed the ids a remote create was confirmed for
                  \*   live      the ids whose WithSync save has returned and
                  \*             that no later call saved again or deleted
                  \*   faults    the failed local score writes: the id, the
                  \*             call, and whether the call rejected
                  \*   gone      the ids a returned deleteHistoryScoreByMode
                  \*             deleted while the network was off
                  \*   read      what the last returned match read returned
                  \*   board     what the last returned getLeaderboard returned
                  \*   wins      the incrementUserWin calls: started, commits
                  \*             sent, returned, commits applied, and the
                  \*             counts the first call found

vars == <<rooms, match, poll, db, inits, dbCalls, net, remoteMode, envFlips, netEvents, isConnected, scores, players,
          pendingDeleted, remote, remoteUsers, pendingQueue, syncing, drains,
          tasks, started, usedIds, now, hist>>

envVars == <<net, remoteMode, envFlips>>
storeVars == <<db, inits, dbCalls>>
roomVars == <<rooms, match, poll>>
screenVars == <<storeVars, roomVars>>
monVars == <<netEvents, isConnected>>
localVars == <<scores, players, pendingDeleted>>
clientVars == <<tasks, started, usedIds>>
remoteVars == <<remote, remoteUsers>>
drainVars == <<syncing, drains>>
engineVars == <<envVars, monVars, localVars, remoteVars, pendingQueue, drainVars,
               clientVars, now, hist>>

NoId == 0
NoCall == [none |-> TRUE]
NoData == [none |-> TRUE]
NoItem == [id |-> NoId, type |-> "none", data |-> NoData]

Range(s) == { s[i] : i \in 1..Len(s) }

\* ------------------------------------------------------------- environment
\* fetch() resolves with an HTTP answer
Reach == net /\ remoteMode # "down"
\* the remote store answers requests with success
Accept == net /\ remoteMode = "ok"

NetFlip ==
  /\ envFlips < MaxEnvFlips
  /\ net' = ~net
  /\ envFlips' = envFlips + 1
  /\ netEvents' = Append(netEvents, ~net)
  /\ hist' = [hist EXCEPT !.owed = IF ~net THEN @ + 1 ELSE @]
  /\ UNCHANGED <<screenVars, remoteMode, isConnected, localVars, remoteVars,
                 pendingQueue, drainVars, clientVars, now>>

RemoteFlip ==
  /\ envFlips < MaxEnvFlips
  /\ \E m \in {"ok", "reject", "down"} \ {remoteMode} : remoteMode' = m
  /\ envFlips' = envFlips + 1
  /\ UNCHANGED <<screenVars, net, monVars, localVars, remoteVars,
                 pendingQueue, drainVars, clientVars, now, hist>>

\* ------------------------------------------------------------- local store
\* (variant: the INSERT stores nothing)
sqliteSaveNothing(tbl, id, row) == tbl

\* (variant: a replaced row keeps its synced flag)
sqliteSaveKeepsFlag(tbl, id, row) ==
  [k \in DOMAIN tbl \cup {id} |->
     IF k = id
     THEN [row EXCEPT !.synced = IF id \in DOMAIN tbl THEN tbl[id].synced ELSE 0]
     ELSE tbl[k]]

\* sqliteSaveFirstToXScore / sqliteSaveTimeAttackScore: INSERT OR REPLACE
\* with the literal 0 in the synced column.
sqliteSaveScore(tbl, id, row) ==
  [k \in DOMAIN tbl \cup {id} |->
     IF k = id THEN [row EXCEPT !.synced = 0] ELSE tbl[k]]

\* (variant: the UPDATE matches no row)
sqliteMarkNothing(tbl, id) == tbl

\* sqliteMarkFirstToXSynced / sqliteMarkTimeAttackSynced: UPDATE .. WHERE id
sqliteMarkSynced(tbl, id) ==
  [k \in DOMAIN tbl |-> IF k = id THEN [tbl[k] EXCEPT !.synced = 1] ELSE tbl[k]]

\* (variant: the SELECT has the flag the wrong way round)
sqliteGetUnsyncedFlagInverted(tbl, kind) ==
  { [id |-> k, row |-> tbl[k]] : k \in { j \in DOMAIN tbl :
                                   KindOf(j) = kind /\ tbl[j].synced = 1 } }

\* (variant: the SELECT answers no row)
sqliteGetUnsyncedNone(tbl, kind) == {}

\* sqliteGetUnsyncedFirstToXScores / sqliteGetUnsyncedTimeAttackScores
sqliteGetUnsynced(tbl, kind) ==
  { [id |-> k, row |-> tbl[k]] : k \in { j \in DOMAIN tbl :
                                   KindOf(j) = kind /\ tbl[j].synced = 0 } }

\* ------------------------------------------------------------ remote store
HasDoc(store, id) == \E d \in store : d.id = id

\* The answer of POST <collection>?documentId=id
CreateStatus(store, id) ==
  IF ~Reach THEN "throw"
  ELSE IF remoteMode = "reject" THEN "error"
  ELSE IF HasDoc(store, id) THEN "conflict"
  ELSE "ok"

\* The collection after that request
CreateEffect(store, id, data, by) ==
  IF CreateStatus(store, id) = "ok"
  THEN store \cup {[id |-> id, data |-> data, by |-> by]}
  ELSE store

\* (variant: 409 is not taken for a success)
firebaseSaveResultStrict(status, customId) ==
  IF status = "ok" THEN customId ELSE NoId

\* firebaseSaveFirstToXScore / firebaseSaveTimeAttackScore with a customId:
\* the id on res.ok, the customId on 409, null otherwise.
firebaseSaveResult(status, customId) ==
  IF status = "ok" THEN customId
  ELSE IF status = "conflict" /\ customId # NoId THEN customId
  ELSE NoId

toFirebasePlayerId(playerId) ==
  IF playerId = AI_PLAYER_ID THEN FIREBASE_AI_PLAYER_ID ELSE playerId

\* --------------------------------------------------------- syncPendingScores
\* The ids of the rows that are unsynced now
UnsyncedIds == { k \in DOMAIN scores : scores[k].synced = 0 }

\* One activation of syncPendingScores.  The last five fields are history:
\*   seen    the items queued when it started
\*   during  the items queued while it ran
\*   marked  the queued items it marked synced
\*   pre     the ids unsynced or queued when it started that were not
\*           written again since
\*   late    a drain request had been dropped before it started
\*   refused one of its creates was not accepted
\*   after   the ids whose remote deletion had been confirmed to
\*           deleteHistoryScoreByMode when the activation started
NewDrain(q) ==
  [pc |-> "net", kind |-> "first_to_x", toSync |-> <<>>, cur |-> NoItem,
   scan |-> {}, seen |-> Range(q), during |-> {}, marked |-> {},
   pre |-> UnsyncedIds \cup { q[j].id : j \in 1..Len(q) },
   late |-> hist.dropped, refused |-> FALSE, after |-> hist.deleted]

\* (variant: the guard never refuses)
DrainGuardOff(flag) == FALSE

\* if (syncing) return;
DrainGuard(flag) == flag

\* The synchronous head of syncPendingScores(), run by its caller: ds, q and
\* h are the activations, the queue and the history as the caller leaves them.
syncPendingScoresCall(ds, q, h) ==
  IF DrainGuard(syncing) \/ Len(ds) >= MaxDrains
  THEN /\ drains' = ds
       /\ syncing' = syncing
       /\ hist' = [h EXCEPT !.dropped = TRUE]
  ELSE /\ drains' = Append(ds, NewDrain(q))
       /\ syncing' = TRUE
       /\ hist' = h

\* (variant: the item is not pushed)
queuePendingNothing(q, item) == q

\* function queuePending(item) { pendingQueue.push(item); }
queuePending(q, item) == Append(q, item)

NoteQueued(ds, item) ==
  [i \in 1..Len(ds) |-> [ds[i] EXCEPT !.during = @ \cup {item}]]

NoteWritten(ds, id) ==
  [i \in 1..Len(ds) |-> [ds[i] EXCEPT !.pre = @ \ {id}]]

RemoveAt(s, i) == SubSeq(s, 1, i - 1) \o SubSeq(s, i + 1, Len(s))

\* A create for id was answered with st
Confirmed(h, st, id) ==
  IF st \in {"ok", "conflict"} THEN [h EXCEPT !.confirmed = @ \cup {id}] ELSE h

\* (variant: the activation ends without the finally block)
DrainFinishKeepsFlag(i) ==
  /\ drains' = RemoveAt(drains, i)
  /\ UNCHANGED syncing

\* finally { syncing = false; }
DrainFinish(i) ==
  /\ drains' = RemoveAt(drains, i)
  /\ syncing' = FALSE

DrainGoes(i, d) ==
  /\ drains' = [drains EXCEPT ![i] = d]
  /\ UNCHANGED syncing

\* const isOnline = await checkNetworkStatus(); if (!isOnline) return;
DrainNet(i) ==
  /\ drains[i].pc = "net"
  /\ isConnected' = net
  /\ IF ~net
     THEN DrainFinish(i)
     ELSE DrainGoes(i, [drains[i] EXCEPT !.pc = "probe"])
  /\ UNCHANGED <<screenVars, envVars, netEvents, localVars, remoteVars, pendingQueue,
                 clientVars, now, hist>>

\* The scan of one table starts
StartScan(d, kind) ==
  [d EXCEPT !.pc = "list", !.kind = kind, !.cur = NoItem]

\* const firebaseOk = await isFirebaseAvailable(); if (!firebaseOk) return;
\* if (pendingQueue.length > 0) { toSync = [...pendingQueue]; pendingQueue = []
DrainProbe(i) ==
  LET d == drains[i]
  IN /\ d.pc = "probe"
     /\ IF ~Reach
        THEN /\ DrainFinish(i)
             /\ UNCHANGED pendingQueue
        ELSE IF Len(pendingQueue) > 0
        THEN /\ DrainGoes(i, [d EXCEPT !.pc = "qcreate",
                                       !.toSync = Tail(pendingQueue),
                                       !.cur = Head(pendingQueue)])
             /\ pendingQueue' = <<>>
        ELSE /\ DrainGoes(i, StartScan(d, "first_to_x"))
             /\ UNCHANGED pendingQueue
     /\ UNCHANGED <<screenVars, envVars, monVars, localVars, remoteVars, clientVars, now, hist>>

\* The loop over toSync moves to its next item, or the scans start.
NextQueued(d) ==
  IF d.toSync # <<>>
  THEN [d EXCEPT !.pc = "qcreate", !.cur = Head(d.toSync), !.toSync = Tail(d.toSync)]
  ELSE StartScan(d, "first_to_x")

\* (variant: the failed item is not pushed back)
RequeueDropped(q, item) == q

\* catch { pendingQueue.push(item); }
RequeueFailed(q, item) == Append(q, item)

\* const result = await firebaseSave...(item.data, item.id);
\* if (!result) throw new Error('Save failed');
DrainQCreate(i) ==
  LET d == drains[i]
      st == CreateStatus(remote, d.cur.id)
      d1 == [d EXCEPT !.refused = @ \/ st \in {"throw", "error"}]
  IN /\ d.pc = "qcreate"
     /\ remote' = CreateEffect(remote, d.cur.id, d.cur.data, "queue")
     /\ IF firebaseSaveResult(st, d.cur.id) # NoId
        THEN /\ DrainGoes(i, [d1 EXCEPT !.pc = "qmark"])
             /\ UNCHANGED pendingQueue
        ELSE /\ DrainGoes(i, NextQueued(d1))
             /\ pendingQueue' = RequeueFailed(pendingQueue, d.cur)
     /\ hist' = Confirmed(hist, st, d.cur.id)
     /\ UNCHANGED <<screenVars, envVars, monVars, localVars, remoteUsers, clientVars, now>>

\* await sqliteMark...Synced(item.id);
DrainQMark(i) ==
  LET d == drains[i]
  IN /\ d.pc = "qmark"
     /\ scores' = sqliteMarkSynced(scores, d.cur.id)
     /\ DrainGoes(i, NextQueued([d EXCEPT !.marked = @ \cup {d.cur}]))
     /\ UNCHANGED <<screenVars, envVars, monVars, players, pendingDeleted, remoteVars, pendingQueue,
                    clientVars, now, hist>>

\* The payload the scan rebuilds from a local row
ScanPayload(kind, row) ==
  IF kind = "first_to_x"
  THEN [player_id |-> toFirebasePlayerId(row.player_id),
        player_id1 |-> toFirebasePlayerId(row.player_id1),
        score01_player |-> row.score01_player,
        score01_player1 |-> row.score01_player1,
        score01_winner |-> toFirebasePlayerId(row.score01_winner),
        score01_time_elapse |-> row.score01_time_elapse,
        score01_created_date |-> row.score01_created_date,
        is_online |-> FALSE]
  ELSE [player_id |-> toFirebasePlayerId(row.player_id),
        score02_verdict |-> row.score02_verdict,
        score02_time_duration |-> row.score02_time_duration,
        score02_created_date |-> row.score02_created_date,
        is_online |-> FALSE]

\* The loop over the unsynced rows moves on; after the first_to_x rows come
\* the time_attack rows, after those the activation ends.
NextScanned(i, d) ==
  IF d.scan # {}
  THEN /\ \E r \in d.scan :
            drains' = [drains EXCEPT ![i] =
                         [d EXCEPT !.pc = "screate",
                                   !.scan = @ \ {r},
                                   !.cur = [id |-> r.id, type |-> d.kind,
                                            data |-> ScanPayload(d.kind, r.row)]]]
       /\ UNCHANGED syncing
  ELSE IF d.kind = "first_to_x"
  THEN DrainGoes(i, StartScan(d, "time_attack"))
  ELSE DrainFinish(i)

\* const unsynced = await sqliteGetUnsynced...Scores();
DrainList(i) ==
  LET d == drains[i]
  IN /\ d.pc = "list"
     /\ NextScanned(i, [d EXCEPT !.scan = sqliteGetUnsynced(scores, d.kind)])
     /\ UNCHANGED <<screenVars, envVars, monVars, localVars, remoteVars, pendingQueue,
                    clientVars, now, hist>>

\* const ok = await firebaseSave...({...}, score.id);
DrainSCreate(i) ==
  LET d == drains[i]
      st == CreateStatus(remote, d.cur.id)
      d1 == [d EXCEPT !.refused = @ \/ st \in {"throw", "error"}]
  IN /\ d.pc = "screate"
     /\ remote' = CreateEffect(remote, d.cur.id, d.cur.data, "scan")
     /\ IF firebaseSaveResult(st, d.cur.id) # NoId
        THEN DrainGoes(i, [d1 EXCEPT !.pc = "smark"])
        ELSE NextScanned(i, d1)
     /\ hist' = Confirmed(hist, st, d.cur.id)
     /\ UNCHANGED <<screenVars, envVars, monVars, localVars, remoteUsers, pendingQueue,
                    clientVars, now>>

\* if (ok) await sqliteMark...Synced(score.id);
DrainSMark(i) ==
  LET d == drains[i]
  IN /\ d.pc = "smark"
     /\ scores' = sqliteMarkSynced(scores, d.cur.id)
     /\ NextScanned(i, d)
     /\ UNCHANGED <<screenVars, envVars, monVars, players, pendingDeleted, remoteVars, pendingQueue,
                    clientVars, now, hist>>

DrainStep ==
  \E i \in 1..Len(drains) :
    \/ DrainNet(i)
    \/ DrainProbe(i)
    \/ DrainQCreate(i)
    \/ DrainQMark(i)
    \/ DrainList(i)
    \/ DrainSCreate(i)
    \/ DrainSMark(i)

\* An await on the local database rejects inside syncPendingScores. In the
\* loop over toSync the rejection of sqliteMark...Synced is caught, the item
\* is pushed back and the loop moves on; in the scans nothing catches the
\* rejection of sqliteGetUnsynced...Scores or sqliteMark...Synced and the
\* activation ends through its finally block.
DrainFails(i) ==
  LET d == drains[i]
  IN /\ d.pc \in {"qmark", "list", "smark"}
     /\ IF d.pc = "qmark"
        THEN /\ DrainGoes(i, NextQueued(d))
             /\ pendingQueue' = RequeueFailed(pendingQueue, d.cur)
        ELSE /\ DrainFinish(i)
             /\ UNCHANGED pendingQueue
     /\ hist' = [hist EXCEPT !.faults = @ \cup
                   {[id |-> NoId, op |-> "syncPendingScores",
                     raised |-> d.pc # "qmark"]}]
     /\ UNCHANGED <<screenVars, envVars, monVars, localVars, remoteVars, clientVars, now>>

DrainFault == \E i \in 1..Len(drains) : DrainFails(i)

\* ------------------------------------------------------------ network.ts
\* The NetInfo.addEventListener callback, and the subscriber that sync.ts
\* registers with subscribeToNetworkChanges
NetInfoEvent ==
  /\ netEvents # <<>>
  /\ LET connected == Head(netEvents)
     IN /\ netEvents' = Tail(netEvents)
        /\ isConnected' = connected
        /\ IF isConnected # connected /\ connected
           THEN syncPendingScoresCall(drains, pendingQueue,
                   [hist EXCEPT !.owed = IF @ > 0 THEN @ - 1 ELSE 0])
           ELSE UNCHANGED <<drainVars, hist>>
  /\ UNCHANGED <<screenVars, envVars, localVars, remoteVars, pendingQueue, clientVars, now>>


\* export async function checkNetworkStatus(), as the handlers outside
\* sync.ts await it (getUserProfile, getLeaderboard): NetInfo.fetch() answers
\* and isConnected is overwritten; the listeners are not called.
checkNetworkStatus ==
  /\ isConnected # net
  /\ isConnected' = net
  /\ UNCHANGED <<screenVars, envVars, netEvents, localVars, remoteVars, pendingQueue,
                 drainVars, clientVars, now, hist>>

\* ------------------------------------------------------------ client calls
\* A call of an exported function.  issued and wrote are history fields: the
\* call has sent a remote request; its local score write has completed.
\* ids, hide, got and cache belong to the reads and to the drain of the
\* pending deletes: the pending ids still to visit, the pending ids the read
\* filters with, the remote rows it received, the cache writes in flight.
\* st, banned and touched are history: the last answer to a remote delete,
\* the ids deleted offline before the call started, the ids that other calls
\* wrote or deleted while it ran; off: the network was off when the call
\* sent its remote delete.
IdleTask ==
  [op |-> "none", pc |-> "idle", id |-> NoId, call |-> NoCall, todo |-> <<>>,
   data |-> NoData, flag |-> FALSE, res |-> <<>>, expect |-> {},
   issued |-> FALSE, wrote |-> FALSE,
   ids |-> {}, hide |-> {}, got |-> <<>>, cache |-> {},
   st |-> "none", off |-> FALSE, banned |-> {}, touched |-> {}]

\* The calls start in the lowest free slot.
CanStart(t) ==
  /\ tasks[t].pc = "idle"
  /\ \A u \in 1..(t - 1) : tasks[u].pc # "idle"

\* function createScoreId(prefix, customId): the customId when there is one,
\* else prefix_<Date.now()>_<random>, which no other call produces.
createScoreId(kind, dedup) ==
  IF dedup
  THEN { id \in ScoreIds : KindOf(id) = kind /\ id \notin usedIds.generated }
  ELSE LET free == { id \in ScoreIds : /\ KindOf(id) = kind
                                       /\ id \notin usedIds.generated
                                       /\ id \notin usedIds.custom }
       IN { id \in free : \A k \in free : id <= k }

NoteId(id, dedup) ==
  IF dedup THEN [usedIds EXCEPT !.custom = @ \cup {id}]
  ELSE [usedIds EXCEPT !.generated = @ \cup {id}]

\* (variant: every id is taken for a human player's)
HumanAnyone(playerId) == TRUE

\* ------------------------------------------------------------ save calls
Human(playerId) == playerId # AI_PLAYER_ID

IsWin(kind, call) ==
  IF kind = "first_to_x" THEN call.winnerId = call.playerId
  ELSE call.verdict = "WIN"

\* updatePlayerStats(id, isWin) reaches incrementUserWin only for a win of a
\* player that is not the AI; these are the players the call increments.
StatsTodo(kind, call) ==
  (IF Human(call.playerId) /\ IsWin(kind, call) THEN <<call.playerId>> ELSE <<>>)
  \o (IF kind = "first_to_x" /\ call.opponentId # AI_PLAYER_ID
         /\ Human(call.opponentId) /\ ~IsWin(kind, call)
      THEN <<call.opponentId>> ELSE <<>>)

\* The row saveFirstToXWithSync / saveTimeAttackWithSync hands to sqlite
LocalRow(kind, call, createdAt) ==
  IF kind = "first_to_x"
  THEN [player_id |-> call.playerId,
        player_id1 |-> call.opponentId,
        score01_player |-> call.playerScore,
        score01_player1 |-> call.opponentScore,
        score01_winner |-> IF IsWin(kind, call) THEN call.playerId
                           ELSE call.opponentId,
        score01_time_elapse |-> call.timeElapsed,
        score01_created_date |-> createdAt,
        synced |-> 0]
  ELSE [player_id |-> call.playerId,
        score02_verdict |-> call.verdict,
        score02_time_duration |-> call.timeDuration,
        score02_created_date |-> createdAt,
        synced |-> 0]

\* const firebaseData = {...}
FirebaseData(kind, call, createdAt) ==
  IF kind = "first_to_x"
  THEN [player_id |-> call.playerId,
        player_id1 |-> toFirebasePlayerId(call.opponentId),
        score01_player |-> call.playerScore,
        score01_player1 |-> call.opponentScore,
        score01_winner |-> IF IsWin(kind, call) THEN call.playerId
                           ELSE toFirebasePlayerId(call.opponentId),
        score01_time_elapse |-> call.timeElapsed,
        score01_created_date |-> createdAt,
        is_online |-> call.isOnlineMode]
  ELSE [player_id |-> call.playerId,
        score02_verdict |-> call.verdict,
        score02_time_duration |-> call.timeDuration,
        score02_created_date |-> createdAt,
        is_online |-> call.isOnlineMode]

CreatedDate(kind, data) ==
  IF kind = "first_to_x" THEN data.score01_created_date
  ELSE data.score02_created_date

\* (variant: the UPDATE matches no row)
sqliteIncrementWinNothing(tbl, playerId) == tbl

\* sqliteIncrementWin: UPDATE players SET count_win = count_win + 1,
\* player_updated_date = <Date.now()> WHERE player_id = ?
sqliteIncrementWin(tbl, playerId) ==
  [k \in DOMAIN tbl |->
     IF k = playerId
     THEN [tbl[k] EXCEPT !.count_win = @ + 1, !.player_updated_date = now]
     ELSE tbl[k]]

\* The commit of the count_win transform on users/<id>: the increment is
\* applied by the server; a missing document is created with this one field
\* ("" and 0 stand for the fields a document does not have).
RemoteIncrement(users, playerId) ==
  IF Accept
  THEN [k \in DOMAIN users \cup {playerId} |->
          IF k = playerId
          THEN (IF k \in DOMAIN users
                THEN [users[k] EXCEPT !.count_win = @ + 1]
                ELSE [displayName |-> "", createdAt |-> 0, updatedAt |-> 0,
                      count_win |-> 1])
          ELSE users[k]]
  ELSE users

\* After the stats: createdAt = Date.now(); await sqliteSave...Score({...}).
\* The clock does not run backwards.
BeginWrite(t, tk) ==
  \E createdAt \in {now + 1} :
    /\ now' = createdAt
    /\ tasks' = [tasks EXCEPT ![t] =
                   [tk EXCEPT !.pc = "write",
                              !.data = FirebaseData(tk.call.kind, tk.call,
                                                    createdAt)]]

\* export async function saveFirstToXWithSync / saveTimeAttackWithSync,
\* up to the first await.  The id createScoreId will answer is drawn here.
SaveStart(t) ==
  /\ CanStart(t)
  /\ started.save < MaxSaves
  /\ started' = [started EXCEPT !.save = @ + 1]
  /\ \E call \in SaveInputs : \E id \in createScoreId(call.kind, call.dedup) :
       LET tk == [IdleTask EXCEPT !.op = "saveWithSync", !.call = call,
                                  !.id = id,
                                  !.todo = StatsTodo(call.kind, call)]
       IN /\ usedIds' = NoteId(id, call.dedup)
          /\ IF tk.todo # <<>>
             THEN /\ tasks' = [tasks EXCEPT ![t] = [tk EXCEPT !.pc = "winLocal"]]
                  /\ UNCHANGED now
             ELSE BeginWrite(t, tk)
  /\ UNCHANGED <<screenVars, envVars, monVars, localVars, remoteVars, pendingQueue,
                 drainVars, hist>>

\* incrementUserWin: await sqliteIncrementWin(userId); then the commit is sent
SaveWinLocal(t) ==
  /\ tasks[t].pc = "winLocal"
  /\ players' = sqliteIncrementWin(players, Head(tasks[t].todo))
  /\ tasks' = [tasks EXCEPT ![t].pc = "winRemote", ![t].issued = TRUE]
  /\ UNCHANGED <<screenVars, envVars, monVars, scores, pendingDeleted, remoteVars,
                 pendingQueue, drainVars, started, usedIds, now, hist>>

\* incrementUserWin: const res = await fetch(<commit>)
SaveWinRemote(t) ==
  LET tk == [tasks[t] EXCEPT !.todo = Tail(@)]
  IN /\ tasks[t].pc = "winRemote"
     /\ remoteUsers' = RemoteIncrement(remoteUsers, Head(tasks[t].todo))
     /\ IF tk.todo # <<>>
        THEN /\ tasks' = [tasks EXCEPT ![t] = [tk EXCEPT !.pc = "winLocal"]]
             /\ UNCHANGED now
        ELSE BeginWrite(t, tk)
     /\ UNCHANGED <<screenVars, envVars, monVars, localVars, remote, pendingQueue,
                    drainVars, started, usedIds, hist>>

\* await sqliteSave...Score({...}); then firebaseData is built and
\* checkNetworkStatus() is called
SaveWrite(t) ==
  LET tk == tasks[t]
      kind == tk.call.kind
  IN /\ tk.pc = "write"
     /\ scores' = sqliteSaveScore(scores, tk.id,
                     LocalRow(kind, tk.call, CreatedDate(kind, tk.data)))
     /\ tasks' = [tasks EXCEPT ![t].pc = "net", ![t].wrote = TRUE]
     /\ drains' = NoteWritten(drains, tk.id)
     /\ hist' = [hist EXCEPT !.submitted[tk.id] = @ \cup {tk.data},
                             !.offline = @ \ {tk.id},
                             !.live = @ \ {tk.id}]
     /\ UNCHANGED <<screenVars, envVars, monVars, players, pendingDeleted, remoteVars,
                    pendingQueue, syncing, started, usedIds, now>>

\* await sqliteSave...Score({...}) rejects (the database cannot be opened or
\* written): nothing in saveFirstToXWithSync / saveTimeAttackWithSync catches
\* it, the call rejects with the error.
SaveWriteFails(t) ==
  LET tk == tasks[t]
  IN /\ tk.pc = "write"
     /\ tasks' = [tasks EXCEPT ![t] = IdleTask]
     /\ hist' = [hist EXCEPT !.faults = @ \cup {[id |-> tk.id, op |-> tk.op,
                                                  raised |-> TRUE]}]
     /\ UNCHANGED <<screenVars, envVars, monVars, localVars, remoteVars, pendingQueue,
                    drainVars, started, usedIds, now>>

\* The call returns; its record is there unless a delete ran meanwhile
Returned(h, tk) ==
  IF /\ tk.id \in DOMAIN scores
     /\ \A u \in Tasks : ~(tasks[u].pc = "dlocal" /\ tasks[u].id = tk.id)
  THEN [h EXCEPT !.live = @ \cup {tk.id}]
  ELSE h

\* queuePending({ id, type, data }); void syncPendingScores(); and the call
\* returns.  offline tells that the network check answered false.
SaveQueues(t, offline) ==
  LET tk == tasks[t]
      item == [id |-> tk.id, type |-> tk.call.kind, data |-> tk.data]
      h == [hist EXCEPT !.offline = IF offline THEN @ \cup {tk.id} ELSE @]
  IN /\ pendingQueue' = queuePending(pendingQueue, item)
     /\ syncPendingScoresCall(NoteQueued(drains, item), pendingQueue',
                              Returned(h, tk))
     /\ tasks' = [tasks EXCEPT ![t] = IdleTask]

\* const isOnline = await checkNetworkStatus();
SaveNet(t) ==
  /\ tasks[t].pc = "net"
  /\ isConnected' = net
  /\ IF net
     THEN /\ tasks' = [tasks EXCEPT ![t].pc = "probe"]
          /\ UNCHANGED <<pendingQueue, drainVars, hist>>
     ELSE SaveQueues(t, TRUE)
  /\ UNCHANGED <<screenVars, envVars, netEvents, localVars, remoteVars, started, usedIds,
                 now>>

\* const firebaseOk = isOnline && (await isFirebaseAvailable());
SaveProbe(t) ==
  /\ tasks[t].pc = "probe"
  /\ IF Reach
     THEN /\ tasks' = [tasks EXCEPT ![t].pc = "create", ![t].issued = TRUE]
          /\ UNCHANGED <<pendingQueue, drainVars, hist>>
     ELSE SaveQueues(t, FALSE)
  /\ UNCHANGED <<screenVars, envVars, monVars, localVars, remoteVars, started, usedIds,
                 now>>

\* const result = await firebaseSave...Score(firebaseData, scoreId);
SaveCreate(t) ==
  LET tk == tasks[t]
      st == CreateStatus(remote, tk.id)
  IN /\ tk.pc = "create"
     /\ remote' = CreateEffect(remote, tk.id, tk.data, "save")
     /\ IF firebaseSaveResult(st, tk.id) # NoId
        THEN /\ tasks' = [tasks EXCEPT ![t].pc = "mark"]
             /\ hist' = Confirmed(hist, st, tk.id)
             /\ UNCHANGED <<pendingQueue, drainVars>>
        ELSE SaveQueues(t, FALSE)
     /\ UNCHANGED <<screenVars, envVars, monVars, localVars, remoteUsers, started, usedIds,
                    now>>

\* await sqliteMark...Synced(scoreId); void syncPendingScores();
SaveMark(t) ==
  /\ tasks[t].pc = "mark"
  /\ scores' = sqliteMarkSynced(scores, tasks[t].id)
  /\ tasks' = [tasks EXCEPT ![t] = IdleTask]
  /\ syncPendingScoresCall(drains, pendingQueue, Returned(hist, tasks[t]))
  /\ UNCHANGED <<screenVars, envVars, monVars, players, pendingDeleted, remoteVars,
                 pendingQueue, started, usedIds, now>>

SaveStep ==
  \E t \in Tasks :
    \/ SaveStart(t)
    \/ SaveWinLocal(t)
    \/ SaveWinRemote(t)
    \/ SaveWrite(t)
    \/ SaveNet(t)
    \/ SaveProbe(t)
    \/ SaveCreate(t)
    \/ SaveMark(t)

\* ------------------------------------------------- saveFirstToXScore (older)
LegacyInputs ==
  { [kind |-> "first_to_x", playerId |-> "p1", opponentId |-> AI_PLAYER_ID,
     playerScore |-> 5, opponentScore |-> 2, winnerId |-> "p1",
     timeElapsed |-> 17, targetScore |-> 5, isOnline |-> FALSE],
    [kind |-> "time_attack", playerId |-> "p1", verdict |-> "WIN",
     timeDuration |-> 60, targetSeconds |-> 60, isOnline |-> FALSE] }

\* The row saveFirstToXScore / saveTimeAttackScore hands to sqlite; the
\* INSERT has no column for the target.
LegacyRow(call, createdDate) ==
  IF call.kind = "first_to_x"
  THEN [player_id |-> call.playerId,
        player_id1 |-> call.opponentId,
        score01_player |-> call.playerScore,
        score01_player1 |-> call.opponentScore,
        score01_winner |-> call.winnerId,
        score01_time_elapse |-> call.timeElapsed,
        score01_created_date |-> createdDate,
        synced |-> 0]
  ELSE [player_id |-> call.playerId,
        score02_verdict |-> call.verdict,
        score02_time_duration |-> call.timeDuration,
        score02_created_date |-> createdDate,
        synced |-> 0]

LegacyData(call, createdDate) ==
  IF call.kind = "first_to_x"
  THEN [player_id |-> call.playerId,
        player_id1 |-> call.opponentId,
        score01_player |-> call.playerScore,
        score01_player1 |-> call.opponentScore,
        score01_winner |-> call.winnerId,
        score01_time_elapse |-> call.timeElapsed,
        score01_target |-> call.targetScore,
        score01_created_date |-> createdDate,
        is_online |-> call.isOnline]
  ELSE [player_id |-> call.playerId,
        score02_verdict |-> call.verdict,
        score02_time_duration |-> call.timeDuration,
        score02_target_seconds |-> call.targetSeconds,
        score02_created_date |-> createdDate,
        is_online |-> call.isOnline]

\* export async function saveFirstToXScore / saveTimeAttackScore, up to the
\* first await: scoreId = <prefix>_<Date.now()>_<random>; createdDate = Date.now()
LegacyStart(t) ==
  /\ CanStart(t)
  /\ started.legacy < MaxLegacy
  /\ started' = [started EXCEPT !.legacy = @ + 1]
  /\ \E call \in LegacyInputs : \E id \in createScoreId(call.kind, FALSE) :
       \E createdDate \in {now + 1} :
         /\ now' = createdDate
         /\ usedIds' = NoteId(id, FALSE)
         /\ tasks' = [tasks EXCEPT ![t] =
                        [IdleTask EXCEPT !.op = "save", !.pc = "lwrite",
                                         !.id = id, !.call = call,
                                         !.data = LegacyData(call, createdDate)]]
  /\ UNCHANGED <<screenVars, envVars, monVars, localVars, remoteVars, pendingQueue,
                 drainVars, hist>>

\* try { await sqliteSave...Score({...}) } catch {}; firebaseSave... is called
LegacyWrite(t) ==
  LET tk == tasks[t]
  IN /\ tk.pc = "lwrite"
     /\ scores' = sqliteSaveScore(scores, tk.id,
                     LegacyRow(tk.call, CreatedDate(tk.call.kind, tk.data)))
     /\ tasks' = [tasks EXCEPT ![t].pc = "lcreate", ![t].wrote = TRUE,
                               ![t].issued = TRUE]
     /\ drains' = NoteWritten(drains, tk.id)
     /\ hist' = [hist EXCEPT !.submitted[tk.id] = @ \cup {tk.data}]
     /\ UNCHANGED <<screenVars, envVars, monVars, players, pendingDeleted, remoteVars,
                    pendingQueue, syncing, started, usedIds, now>>

\* try { await sqliteSave...Score({...}) } catch (error) { console.warn(..) }
\* with the write rejecting: the call goes on to firebaseSave...
LegacyWriteFails(t) ==
  LET tk == tasks[t]
  IN /\ tk.pc = "lwrite"
     /\ tasks' = [tasks EXCEPT ![t].pc = "lcreate", ![t].issued = TRUE]
     /\ hist' = [hist EXCEPT !.faults = @ \cup {[id |-> tk.id, op |-> tk.op,
                                                  raised |-> FALSE]}]
     /\ UNCHANGED <<screenVars, envVars, monVars, localVars, remoteVars, pendingQueue,
                    drainVars, started, usedIds, now>>

\* await firebaseSave...Score({...}, scoreId): the answer is not looked at
LegacyCreate(t) ==
  LET tk == tasks[t]
      st == CreateStatus(remote, tk.id)
  IN /\ tk.pc = "lcreate"
     /\ remote' = CreateEffect(remote, tk.id, tk.data, "legacy")
     /\ tasks' = [tasks EXCEPT ![t].pc = "lmark"]
     /\ hist' = Confirmed(hist, st, tk.id)
     /\ UNCHANGED <<screenVars, envVars, monVars, localVars, remoteUsers, pendingQueue,
                    drainVars, started, usedIds, now>>

\* await sqliteMark...Synced(scoreId); and the call returns
LegacyMark(t) ==
  /\ tasks[t].pc = "lmark"
  /\ scores' = sqliteMarkSynced(scores, tasks[t].id)
  /\ tasks' = [tasks EXCEPT ![t] = IdleTask]
  /\ UNCHANGED <<screenVars, envVars, monVars, players, pendingDeleted, remoteVars,
                 pendingQueue, drainVars, started, usedIds, now, hist>>

\* --------------------------------------- getFirstToXScores / getTimeAttackScores
NoPid == ""
DefaultLimit == 50

\* (variant: the WHERE clause looks at the first player only)
MatchesFirstOnly(row, kind, pid) == pid = NoPid \/ row.player_id = pid

\* WHERE player_id = ? OR player_id1 = ?   /   WHERE player_id = ?
Matches(row, kind, pid) ==
  \/ pid = NoPid
  \/ row.player_id = pid
  \/ kind = "first_to_x" /\ row.player_id1 = pid

RowCreated(e) ==
  IF KindOf(e.id) = "first_to_x" THEN e.row.score01_created_date
  ELSE e.row.score02_created_date

\* ORDER BY <created date> DESC
RECURSIVE SortByCreatedDesc(_)
SortByCreatedDesc(S) ==
  IF S = {} THEN <<>>
  ELSE LET m == CHOOSE x \in S : \A y \in S : RowCreated(x) >= RowCreated(y)
       IN <<m>> \o SortByCreatedDesc(S \ {m})

Take(s, n) == SubSeq(s, 1, IF n < Len(s) THEN n ELSE Len(s))

\* sqliteGetFirstToXScores / sqliteGetTimeAttackScores
sqliteGetScores(tbl, kind, pid, limit) ==
  Take(SortByCreatedDesc({ [id |-> k, row |-> tbl[k]] :
                             k \in { j \in DOMAIN tbl :
                                       /\ KindOf(j) = kind
                                       /\ Matches(tbl[j], kind, pid) } }),
       limit)

\* (variant: the filter keeps the pending-deleted ids only)
FilterPendingInverted(s, ids) == SelectSeq(s, LAMBDA e : e.id \in ids)

\* local.filter((item) => !pendingDeletedIds.has(item.score01_id))
FilterPending(s, ids) == SelectSeq(s, LAMBDA e : e.id \notin ids)

\* sqliteGetPendingDeletedScoreIds(scoreType)
sqliteGetPendingDeletedScoreIds(tbl, kind) == { id \in tbl : KindOf(id) = kind }

\* The fields firebaseGetFirstToXScores / firebaseGetTimeAttackScores copy
\* from a document (the target is not among them)
RemoteRow(kind, data) ==
  IF kind = "first_to_x"
  THEN [player_id |-> data.player_id,
        player_id1 |-> data.player_id1,
        score01_player |-> data.score01_player,
        score01_player1 |-> data.score01_player1,
        score01_winner |-> data.score01_winner,
        score01_time_elapse |-> data.score01_time_elapse,
        score01_created_date |-> data.score01_created_date,
        is_online |-> data.is_online]
  ELSE [player_id |-> data.player_id,
        score02_verdict |-> data.score02_verdict,
        score02_time_duration |-> data.score02_time_duration,
        score02_created_date |-> data.score02_created_date,
        is_online |-> data.is_online]

\* The answer of the runQuery on a score collection: the documents that pass
\* the player filter, newest first
QueryRows(store, kind, pid) ==
  SortByCreatedDesc(
    { [id |-> d.id, row |-> RemoteRow(kind, d.data)] :
        d \in { x \in store : /\ KindOf(x.id) = kind
                              /\ Matches(x.data, kind, pid) } })

\* (variant: the rows are returned whatever the query was answered)
firebaseGetScoresUnchecked(store, kind, pid) == QueryRows(store, kind, pid)

\* firebaseGetFirstToXScores(undefined, pid) / firebaseGetTimeAttackScores:
\* [] when the query throws or is answered with an error.
firebaseGetScores(store, kind, pid) ==
  IF ~Accept THEN <<>> ELSE QueryRows(store, kind, pid)

\* The row cacheRemoteFirstToXScores / cacheRemoteTimeAttackScores hands to
\* sqliteSave...Score for a remote row
CacheRow(kind, row) ==
  IF kind = "first_to_x"
  THEN [player_id |-> row.player_id,
        player_id1 |-> row.player_id1,
        score01_player |-> row.score01_player,
        score01_player1 |-> row.score01_player1,
        score01_winner |-> row.score01_winner,
        score01_time_elapse |-> row.score01_time_elapse,
        score01_created_date |-> row.score01_created_date,
        synced |-> 0]
  ELSE [player_id |-> row.player_id,
        score02_verdict |-> row.score02_verdict,
        score02_time_duration |-> row.score02_time_duration,
        score02_created_date |-> row.score02_created_date,
        synced |-> 0]

\* map.set(item.id, item): a key keeps the place of its first insertion
MapSet(m, e) ==
  IF \E j \in 1..Len(m) : m[j].id = e.id
  THEN [j \in 1..Len(m) |-> IF m[j].id = e.id THEN e ELSE m[j]]
  ELSE Append(m, e)

RECURSIVE MapSetAll(_, _)
MapSetAll(m, s) ==
  IF s = <<>> THEN m ELSE MapSetAll(MapSet(m, Head(s)), Tail(s))

\* (variant: the local rows are put into the map after the remote rows)
MergeMapLocalLast(localScores, remoteScores) ==
  MapSetAll(MapSetAll(<<>>, remoteScores), localScores)

\* for (const item of localScores) map.set(..); for (const item of
\* remoteScores) map.set(..); [...map.values()]
MergeMap(localScores, remoteScores) ==
  MapSetAll(MapSetAll(<<>>, localScores), remoteScores)

\* (variant: the merged rows are left in map order)
SortNone(s) == s

\* .sort((a, b) => b.created - a.created): Array.prototype.sort is stable
RECURSIVE SortStableDesc(_)
SortStableDesc(s) ==
  IF s = <<>> THEN <<>>
  ELSE LET front == SortStableDesc(SubSeq(s, 1, Len(s) - 1))
           e == s[Len(s)]
           k == Cardinality({ j \in 1..Len(front) :
                                RowCreated(front[j]) >= RowCreated(e) })
       IN SubSeq(front, 1, k) \o <<e>> \o SubSeq(front, k + 1, Len(front))

\* mergeFirstToXScores / mergeTimeAttackScores
mergeScores(localScores, remoteScores, limit) ==
  Take(SortStableDesc(MergeMap(localScores, remoteScores)), limit)

\* export async function getFirstToXScores / getTimeAttackScores, up to the
\* first await.  expect is a history field: the ids the call is to return.
ReadBegin(t, budget) ==
  /\ CanStart(t)
  /\ started.read < budget
  /\ started.board = 0
  /\ started' = [started EXCEPT !.read = @ + 1]
  /\ \E kind \in {"first_to_x", "time_attack"} : \E pid \in {NoPid, "p1"} :
       tasks' = [tasks EXCEPT ![t] =
                   [IdleTask EXCEPT
                      !.op = "getScores", !.pc = "rlocal",
                      !.call = [kind |-> kind, pid |-> pid],
                      !.banned = hist.gone,
                      !.expect = { id \in hist.live \cap DOMAIN scores :
                                     /\ KindOf(id) = kind
                                     /\ Matches(scores[id], kind, pid) }]]
  /\ UNCHANGED <<screenVars, envVars, monVars, localVars, remoteVars, pendingQueue,
                 drainVars, usedIds, now, hist>>

ReadStart(t) == ReadBegin(t, MaxReads)

\* The history screen is opened again and again
ReadAgain(t) == ReadBegin(t, MaxHistoryReads)

\* const local = await sqliteGet...Scores(pid, limit); checkNetworkStatus()
ReadLocal(t) ==
  LET tk == tasks[t]
  IN /\ tk.pc = "rlocal"
     /\ tasks' = [tasks EXCEPT ![t].pc = "rnet",
                    ![t].res = sqliteGetScores(scores, tk.call.kind,
                                               tk.call.pid, DefaultLimit)]
     /\ UNCHANGED <<screenVars, envVars, monVars, localVars, remoteVars, pendingQueue,
                    drainVars, started, usedIds, now, hist>>

\* const isOnline = await checkNetworkStatus();
\* if (isOnline) await syncPendingDeletedScoresIfOnline();
ReadNet(t) ==
  /\ tasks[t].pc = "rnet"
  /\ isConnected' = net
  /\ tasks' = [tasks EXCEPT ![t].flag = net,
                            ![t].pc = IF net THEN "sdnet" ELSE "rpending"]
  /\ UNCHANGED <<screenVars, envVars, netEvents, localVars, remoteVars, pendingQueue,
                 drainVars, started, usedIds, now, hist>>

\* The call returns res; the history keeps what it returned and what it had
\* read: online and answered tell that the network check answered true and
\* that the remote query was answered with its rows.
ReadReturn(t, tk, res) ==
  /\ tasks' = [tasks EXCEPT ![t] = IdleTask]
  /\ hist' = [hist EXCEPT !.read = [res |-> res, expect |-> tk.expect,
                                     hidden |-> tk.hide, online |-> tk.flag,
                                     answered |-> tk.st = "ok",
                                     local |-> tk.res, got |-> tk.got,
                                     banned |-> tk.banned]]

\* pendingDeletedIds = await sqliteGetPendingDeletedScoreIds(..); the filter;
\* if (!isOnline) return filteredLocal; else firebaseGet...Scores is called
ReadPending(t) ==
  LET tk == tasks[t]
      ids == sqliteGetPendingDeletedScoreIds(pendingDeleted, tk.call.kind)
      filteredLocal == FilterPending(tk.res, ids)
      tk1 == [tk EXCEPT !.res = filteredLocal, !.hide = ids]
  IN /\ tk.pc = "rpending"
     /\ IF ~tk.flag
        THEN ReadReturn(t, tk1, filteredLocal)
        ELSE /\ tasks' = [tasks EXCEPT ![t] = [tk1 EXCEPT !.pc = "rquery"]]
             /\ UNCHANGED hist
     /\ UNCHANGED <<screenVars, envVars, monVars, localVars, remoteVars, pendingQueue,
                    drainVars, started, usedIds, now>>

\* const remote = await firebaseGet...Scores(undefined, pid); mappedRemote;
\* cacheRemote...Scores(mappedRemote) starts one sqliteSave...Score per row;
\* with no row its Promise.all is resolved and the merge is returned.
ReadQuery(t) ==
  LET tk == tasks[t]
      mappedRemote == FilterPending(
                        firebaseGetScores(remote, tk.call.kind, tk.call.pid),
                        tk.hide)
      tk1 == [tk EXCEPT !.got = mappedRemote,
                        !.st = IF Accept THEN "ok"
                               ELSE IF Reach THEN "error" ELSE "throw",
                        !.cache = { [id |-> mappedRemote[j].id, stage |-> "save"] :
                                      j \in 1..Len(mappedRemote) }]
  IN /\ tk.pc = "rquery"
     /\ IF mappedRemote = <<>>
        THEN ReadReturn(t, tk1, mergeScores(tk1.res, <<>>, DefaultLimit))
        ELSE /\ tasks' = [tasks EXCEPT ![t] = [tk1 EXCEPT !.pc = "rcache"]]
             /\ UNCHANGED hist
     /\ UNCHANGED <<screenVars, envVars, monVars, localVars, remoteVars, pendingQueue,
                    drainVars, started, usedIds, now>>

\* The row of id among the rows s
RowOf(s, id) == (CHOOSE e \in Range(s) : e.id = id).row

NoteTouched(ts, t, id) ==
  [u \in DOMAIN ts |-> IF u = t THEN ts[u]
                       ELSE [ts[u] EXCEPT !.touched = @ \cup {id}]]

\* cacheRemote...Scores: await sqliteSave...Score({...}) of one row resolves
ReadCacheSave(t) ==
  LET tk == tasks[t]
  IN /\ tk.pc = "rcache"
     /\ \E c \in tk.cache :
          /\ c.stage = "save"
          /\ scores' = sqliteSaveScore(scores, c.id,
                          CacheRow(tk.call.kind, RowOf(tk.got, c.id)))
          /\ tasks' = [NoteTouched(tasks, t, c.id) EXCEPT ![t].cache =
                         (@ \ {c}) \cup {[c EXCEPT !.stage = "mark"]}]
          /\ drains' = NoteWritten(drains, c.id)
     /\ UNCHANGED <<screenVars, envVars, monVars, players, pendingDeleted, remoteVars,
                    pendingQueue, syncing, started, usedIds, now, hist>>

\* cacheRemote...Scores: await sqliteMark...Synced(id) of one row resolves;
\* after the last one the call returns merge...Scores(filteredLocal,
\* mappedRemote, limit)
ReadCacheMark(t) ==
  LET tk == tasks[t]
  IN /\ tk.pc = "rcache"
     /\ \E c \in tk.cache :
          /\ c.stage = "mark"
          /\ scores' = sqliteMarkSynced(scores, c.id)
          /\ IF tk.cache = {c}
             THEN ReadReturn(t, tk, mergeScores(tk.res, tk.got, DefaultLimit))
             ELSE /\ tasks' = [tasks EXCEPT ![t].cache = @ \ {c}]
                  /\ UNCHANGED hist
     /\ UNCHANGED <<screenVars, envVars, monVars, players, pendingDeleted, remoteVars,
                    pendingQueue, drainVars, started, usedIds, now>>

\* ------------------------------------------------- deleteHistoryScoreByMode
\* sqliteDeleteFirstToXScore / sqliteDeleteTimeAttackScore
sqliteDeleteScore(tbl, id) == [k \in DOMAIN tbl \ {id} |-> tbl[k]]

\* The answer of DELETE <collection>/<id>
DeleteStatus(store, id) ==
  IF ~Reach THEN "throw"
  ELSE IF remoteMode = "reject" THEN "error"
  ELSE IF HasDoc(store, id) THEN "ok"
  ELSE "notfound"

\* (variant: 404 is not taken for a success)
firebaseDeleteResultOkOnly(status) == status = "ok"

\* firebaseDelete...Score: res.ok || res.status === 404, false on a throw
firebaseDeleteResult(status) == status \in {"ok", "notfound"}

\* The collection after DELETE <collection>/<id>
DeleteEffect(store, id) ==
  IF DeleteStatus(store, id) = "ok" THEN { d \in store : d.id # id } ELSE store

NoteDeleted(ts, id) ==
  [u \in DOMAIN ts |-> [ts[u] EXCEPT !.expect = @ \ {id},
                                     !.touched = @ \cup {id}]]

\* export async function deleteHistoryScoreByMode(mode, scoreId), up to the
\* first await; the history screen passes the id of a row it lists.
DeleteStart(t) ==
  /\ CanStart(t)
  /\ started.delete < MaxDeletes
  /\ started.board = 0
  /\ started' = [started EXCEPT !.delete = @ + 1]
  /\ \E id \in DOMAIN scores :
       /\ tasks' = [NoteDeleted(tasks, id) EXCEPT ![t] =
                      [IdleTask EXCEPT !.op = "deleteHistoryScoreByMode",
                                       !.pc = "dlocal", !.id = id,
                                       !.call = [kind |-> KindOf(id)]]]
       /\ hist' = [hist EXCEPT !.live = @ \ {id}]
  /\ UNCHANGED <<screenVars, envVars, monVars, localVars, remoteVars, pendingQueue,
                 drainVars, usedIds, now>>

\* await sqliteDelete...Score(scoreId); firebaseDelete...Score is called
DeleteLocal(t) ==
  /\ tasks[t].pc = "dlocal"
  /\ scores' = sqliteDeleteScore(scores, tasks[t].id)
  /\ tasks' = [NoteTouched(tasks, t, tasks[t].id) EXCEPT
                  ![t].pc = "dremote", ![t].issued = TRUE]
  /\ UNCHANGED <<screenVars, envVars, monVars, players, pendingDeleted, remoteVars,
                 pendingQueue, drainVars, started, usedIds, now, hist>>

\* const deleted = await firebaseDelete...Score(scoreId);
DeleteRemote(t) ==
  /\ tasks[t].pc = "dremote"
  /\ remote' = DeleteEffect(remote, tasks[t].id)
  /\ tasks' = [tasks EXCEPT ![t].pc = "dpending",
                            ![t].st = DeleteStatus(remote, tasks[t].id),
                            ![t].off = ~net,
                            ![t].flag = firebaseDeleteResult(
                                          DeleteStatus(remote, tasks[t].id))]
  /\ UNCHANGED <<screenVars, envVars, monVars, localVars, remoteUsers, pendingQueue,
                 drainVars, started, usedIds, now, hist>>

\* if (deleted) await sqliteRemovePendingDeletedScore(..)
\* else await sqliteQueuePendingDeletedScore(..);
\* void syncPendingDeletedScoresIfOnline(); and the call returns
DeletePending(t) ==
  LET tk == tasks[t]
  IN /\ tk.pc = "dpending"
     /\ pendingDeleted' = IF tk.flag THEN pendingDeleted \ {tk.id}
                          ELSE pendingDeleted \cup {tk.id}
     /\ tasks' = [tasks EXCEPT ![t] =
                    [IdleTask EXCEPT !.op = "syncPendingDeletedScoresIfOnline",
                                     !.pc = "sdnet"]]
     /\ hist' = [hist EXCEPT !.gone = IF tk.off /\ ~tk.flag THEN @ \cup {tk.id}
                                      ELSE @,
                              !.deleted = IF tk.flag THEN @ \cup {tk.id}
                                          ELSE @]
     /\ UNCHANGED <<screenVars, envVars, monVars, scores, players, remoteVars,
                    pendingQueue, drainVars, started, usedIds, now>>

\* syncPendingDeletedScoresIfOnline returns: the read that awaited it goes on
\* to read the pending ids, the call that was left running by
\* deleteHistoryScoreByMode ends.
SyncDone(tk) ==
  IF tk.op = "getScores" THEN [tk EXCEPT !.pc = "rpending", !.ids = {}, !.id = NoId]
  ELSE IdleTask

\* syncPendingDeletedScoresIfOnline: const online = await checkNetworkStatus();
\* if (!online) return;
SyncDeletedNet(t) ==
  /\ tasks[t].pc = "sdnet"
  /\ isConnected' = net
  /\ tasks' = [tasks EXCEPT ![t] = IF net THEN [@ EXCEPT !.pc = "sdlist"]
                                   ELSE SyncDone(@)]
  /\ UNCHANGED <<screenVars, envVars, netEvents, localVars, remoteVars, pendingQueue,
                 drainVars, started, usedIds, now, hist>>

\* The two for-of loops move on: the first_to_x ids come before the
\* time_attack ids; the SELECT has no ORDER BY, so within a kind any id can
\* be the next one.
SyncNext(t, tk) ==
  IF tk.ids = {}
  THEN tasks' = [tasks EXCEPT ![t] = SyncDone(tk)]
  ELSE LET ftx == { id \in tk.ids : KindOf(id) = "first_to_x" }
       IN \E id \in (IF ftx # {} THEN ftx ELSE tk.ids) :
            tasks' = [tasks EXCEPT ![t] =
                        [tk EXCEPT !.pc = "sddel", !.id = id, !.ids = @ \ {id}]]

\* const [pendingFirstToXIds, pendingTimeAttackIds] = await Promise.all([...])
SyncDeletedList(t) ==
  /\ tasks[t].pc = "sdlist"
  /\ SyncNext(t, [tasks[t] EXCEPT !.ids =
         sqliteGetPendingDeletedScoreIds(pendingDeleted, "first_to_x")
           \cup sqliteGetPendingDeletedScoreIds(pendingDeleted, "time_attack")])
  /\ UNCHANGED <<screenVars, envVars, monVars, localVars, remoteVars, pendingQueue,
                 drainVars, started, usedIds, now, hist>>

\* const ok = await firebaseDelete...Score(scoreId);
SyncDeletedDelete(t) ==
  LET tk == tasks[t]
      st == DeleteStatus(remote, tk.id)
  IN /\ tk.pc = "sddel"
     /\ remote' = DeleteEffect(remote, tk.id)
     /\ IF firebaseDeleteResult(st)
        THEN tasks' = [tasks EXCEPT ![t].pc = "sdrm", ![t].st = st]
        ELSE SyncNext(t, [tk EXCEPT !.st = st])
     /\ UNCHANGED <<screenVars, envVars, monVars, localVars, remoteUsers, pendingQueue,
                    drainVars, started, usedIds, now, hist>>

\* if (ok) await sqliteRemovePendingDeletedScore(scoreId, ..);
SyncDeletedRemove(t) ==
  LET tk == tasks[t]
  IN /\ tk.pc = "sdrm"
     /\ pendingDeleted' = pendingDeleted \ {tk.id}
     /\ SyncNext(t, tk)
     /\ UNCHANGED <<screenVars, envVars, monVars, scores, players, remoteVars,
                    pendingQueue, drainVars, started, usedIds, now, hist>>

\* ------------------------------------------------------------ getLeaderboard
\* function fromSQLitePlayer(player)
fromSQLitePlayer(id, row) ==
  [uid |-> id,
   displayName |-> IF row.player_name = "" THEN "Guest" ELSE row.player_name,
   createdAt |-> row.player_created_date,
   updatedAt |-> row.player_updated_date,
   count_win |-> row.count_win]

\* a sorts before b: more wins, or as many wins and updated as late or later
ProfileBefore(a, b) ==
  \/ a.count_win > b.count_win
  \/ a.count_win = b.count_win /\ a.updatedAt >= b.updatedAt

\* .sort((a, b) => winDiff || updatedDiff): stable
RECURSIVE SortProfiles(_)
SortProfiles(s) ==
  IF s = <<>> THEN <<>>
  ELSE LET front == SortProfiles(SubSeq(s, 1, Len(s) - 1))
           e == s[Len(s)]
           k == Cardinality({ j \in 1..Len(front) : ProfileBefore(front[j], e) })
       IN SubSeq(front, 1, k) \o <<e>> \o SubSeq(front, k + 1, Len(front))

\* The profiles of a set in some order
RECURSIVE SeqOfProfiles(_)
SeqOfProfiles(S) ==
  IF S = {} THEN <<>>
  ELSE LET m == CHOOSE x \in S : TRUE IN <<m>> \o SeqOfProfiles(S \ {m})

\* sqliteGetAllPlayers: SELECT * FROM players ORDER BY count_win DESC,
\* player_updated_date DESC; then localPlayers.map(fromSQLitePlayer)
sqliteGetAllPlayers(tbl) ==
  SortProfiles(SeqOfProfiles({ fromSQLitePlayer(k, tbl[k]) : k \in DOMAIN tbl }))

\* The profile getLeaderboard builds from a users document
RemoteProfile(id, doc) ==
  [uid |-> id,
   displayName |-> IF doc.displayName = "" THEN "Guest" ELSE doc.displayName,
   createdAt |-> doc.createdAt,
   updatedAt |-> doc.updatedAt,
   count_win |-> doc.count_win]

\* The answer of the runQuery on users, ordered by count_win descending
RemoteProfiles(users) ==
  SortProfiles(SeqOfProfiles({ RemoteProfile(k, users[k]) : k \in DOMAIN users }))

\* cacheUserProfile(profile): sqliteUpsertPlayer({...}), INSERT OR REPLACE
cacheUserProfile(tbl, profile) ==
  [k \in DOMAIN tbl \cup {profile.uid} |->
     IF k = profile.uid
     THEN [player_name |-> IF profile.displayName = "" THEN "Guest"
                           ELSE profile.displayName,
           player_created_date |-> IF profile.createdAt = 0 THEN now
                                   ELSE profile.createdAt,
           player_updated_date |-> IF profile.updatedAt # 0 THEN profile.updatedAt
                                   ELSE IF profile.createdAt # 0
                                   THEN profile.createdAt ELSE now,
           count_win |-> profile.count_win,
           count_lose |-> 0]
     ELSE tbl[k]]

\* map.set(user.uid, user)
ProfileSet(m, e) ==
  IF \E j \in 1..Len(m) : m[j].uid = e.uid
  THEN [j \in 1..Len(m) |-> IF m[j].uid = e.uid THEN e ELSE m[j]]
  ELSE Append(m, e)

RECURSIVE ProfileSetAll(_, _)
ProfileSetAll(m, s) ==
  IF s = <<>> THEN m ELSE ProfileSetAll(ProfileSet(m, Head(s)), Tail(s))

\* limit > 0 ? list.slice(0, limit) : list
Limited(s, limit) == IF limit > 0 THEN Take(s, limit) ELSE s

\* function mergeProfiles(localList, remoteList, limit)
mergeProfiles(localList, remoteList, limit) ==
  Limited(SortProfiles(ProfileSetAll(ProfileSetAll(<<>>, localList), remoteList)),
          limit)

\* The names a read of userId is to show: the name of a rename that has
\* returned with its remote PATCH failed (history)
Renamed(userId) ==
  IF hist.ren.done /\ ~hist.ren.ok /\ hist.ren.id = userId
  THEN {hist.ren.name} ELSE {}

NoBoard == [res |-> <<>>, local |-> <<>>, got |-> <<>>, online |-> FALSE,
            answered |-> FALSE, calls |-> 0, want |-> {}]

\* The call returns res
BoardReturn(t, tk, res) ==
  /\ tasks' = [tasks EXCEPT ![t] = IdleTask]
  /\ hist' = [hist EXCEPT !.board = [res |-> res, local |-> tk.res,
                                      got |-> tk.got, online |-> tk.flag,
                                      answered |-> tk.st = "ok",
                                      calls |-> @.calls + 1,
                                      want |-> tk.hide]]

\* export async function getLeaderboard(limit = 50), up to the first await.
\* The leaderboard works on the players table and the users collection, the
\* match reads and deletes on the score tables: a run follows one of the two
\* screens.
BoardStart(t) ==
  /\ CanStart(t)
  /\ started.board < MaxBoards
  /\ started.read = 0 /\ started.delete = 0
  /\ started' = [started EXCEPT !.board = @ + 1]
  /\ tasks' = [tasks EXCEPT ![t] =
                 [IdleTask EXCEPT !.op = "getLeaderboard", !.pc = "lblocal",
                                  !.call = [limit |-> DefaultLimit],
                                  !.hide = Renamed("p1")]]
  /\ UNCHANGED <<screenVars, envVars, monVars, localVars, remoteVars, pendingQueue,
                 drainVars, usedIds, now, hist>>

\* const localPlayers = await sqliteGetAllPlayers(); localProfiles;
\* checkNetworkStatus() is called
BoardLocal(t) ==
  /\ tasks[t].pc = "lblocal"
  /\ tasks' = [tasks EXCEPT ![t].pc = "lbnet",
                            ![t].res = sqliteGetAllPlayers(players)]
  /\ UNCHANGED <<screenVars, envVars, monVars, localVars, remoteVars, pendingQueue,
                 drainVars, started, usedIds, now, hist>>

\* const online = await checkNetworkStatus(); if (!online) return the local
\* profiles; else the runQuery is sent
BoardNet(t) ==
  LET tk == tasks[t]
  IN /\ tk.pc = "lbnet"
     /\ isConnected' = net
     /\ IF ~net
        THEN BoardReturn(t, tk, Limited(tk.res, tk.call.limit))
        ELSE /\ tasks' = [tasks EXCEPT ![t].pc = "lbquery", ![t].flag = TRUE]
             /\ UNCHANGED hist
     /\ UNCHANGED <<screenVars, envVars, netEvents, localVars, remoteVars, pendingQueue,
                    drainVars, started, usedIds, now>>

\* const res = await fetch(<runQuery>): a throw is caught and an error answer
\* is checked, both return the local profiles; else remoteProfiles is built
\* and one cacheUserProfile per profile starts
BoardQuery(t) ==
  LET tk == tasks[t]
      remoteProfiles == RemoteProfiles(remoteUsers)
      tk1 == [tk EXCEPT !.st = IF Accept THEN "ok"
                               ELSE IF Reach THEN "error" ELSE "throw"]
      tk2 == [tk1 EXCEPT !.got = remoteProfiles,
                         !.cache = { remoteProfiles[j].uid :
                                       j \in 1..Len(remoteProfiles) }]
  IN /\ tk.pc = "lbquery"
     /\ IF ~Accept
        THEN BoardReturn(t, tk1, Limited(tk.res, tk.call.limit))
        ELSE IF remoteProfiles = <<>>
        THEN BoardReturn(t, tk2, mergeProfiles(tk.res, <<>>, tk.call.limit))
        ELSE /\ tasks' = [tasks EXCEPT ![t] = [tk2 EXCEPT !.pc = "lbcache"]]
             /\ UNCHANGED hist
     /\ UNCHANGED <<screenVars, envVars, monVars, localVars, remoteVars, pendingQueue,
                    drainVars, started, usedIds, now>>

\* await Promise.all(remoteProfiles.map(cacheUserProfile)): one upsert
\* resolves; after the last one mergeProfiles(..) is returned
BoardCache(t) ==
  LET tk == tasks[t]
  IN /\ tk.pc = "lbcache"
     /\ \E uid \in tk.cache :
          /\ players' = cacheUserProfile(players,
                           CHOOSE e \in Range(tk.got) : e.uid = uid)
          /\ IF tk.cache = {uid}
             THEN BoardReturn(t, tk, mergeProfiles(tk.res, tk.got, tk.call.limit))
             ELSE /\ tasks' = [tasks EXCEPT ![t].cache = @ \ {uid}]
                  /\ UNCHANGED hist
     /\ UNCHANGED <<screenVars, envVars, monVars, scores, pendingDeleted, remoteVars,
                    pendingQueue, drainVars, started, usedIds, now>>

\* ----------------------------------------------------------- incrementUserWin
\* export async function incrementUserWin(userId), called on its own (by
\* updatePlayerStats and saveScoreEntry after a won match), up to the first
\* await: for the signed-in player p1, or for the opponent p2 of an online
\* match, who has no row in the local players table.  The history counts the
\* calls of the one user id, keeps the counts the first call found, and
\* notes whether the second call started while the first was running.
WinStart(t) ==
  /\ CanStart(t)
  /\ started.win < MaxWins
  /\ started' = [started EXCEPT !.win = @ + 1]
  /\ \E userId \in (IF hist.wins.calls = 0 THEN {"p1", "p2"} ELSE {hist.wins.id}) :
       /\ tasks' = [tasks EXCEPT ![t] =
                      [IdleTask EXCEPT !.op = "incrementUserWin",
                                       !.pc = "wlocal", !.call = [userId |-> userId]]]
       /\ hist' = [hist EXCEPT !.wins =
                     IF @.calls = 0
                     THEN [@ EXCEPT !.calls = 1, !.id = userId,
                                    !.local = IF userId \in DOMAIN players
                                              THEN players[userId].count_win ELSE 0,
                                    !.remote = IF userId \in DOMAIN remoteUsers
                                               THEN remoteUsers[userId].count_win
                                               ELSE 0]
                     ELSE [@ EXCEPT !.calls = @ + 1,
                                    !.overlap = \E u \in Tasks :
                                                  tasks[u].op = "incrementUserWin"]]
  /\ UNCHANGED <<screenVars, envVars, monVars, localVars, remoteVars, pendingQueue,
                 drainVars, usedIds, now>>

\* try { await sqliteIncrementWin(userId) } catch {}; then the commit with
\* the count_win increment transform is sent
WinLocal(t) ==
  /\ tasks[t].pc = "wlocal"
  /\ players' = sqliteIncrementWin(players, tasks[t].call.userId)
  /\ tasks' = [tasks EXCEPT ![t].pc = "wremote", ![t].issued = TRUE]
  /\ hist' = [hist EXCEPT !.wins.sent = @ + 1]
  /\ UNCHANGED <<screenVars, envVars, monVars, scores, pendingDeleted, remoteVars,
                 pendingQueue, drainVars, started, usedIds, now>>

\* const res = await fetch(<commit>); and the call returns
WinRemote(t) ==
  /\ tasks[t].pc = "wremote"
  /\ remoteUsers' = RemoteIncrement(remoteUsers, tasks[t].call.userId)
  /\ tasks' = [tasks EXCEPT ![t] = IdleTask]
  /\ hist' = [hist EXCEPT !.wins.done = @ + 1,
                          !.wins.applied = IF Accept THEN @ + 1 ELSE @]
  /\ UNCHANGED <<screenVars, envVars, monVars, localVars, remote, pendingQueue,
                 drainVars, started, usedIds, now>>

\* ------------------------------------------------------------ player profiles
\* The calls of the profile functions: the signed-in player, who has a local
\* row and a remote document; a player who has a remote document only (the
\* account was used on another device); a guest with no record anywhere.
\* docId "" is the call without a docId.
PlayerInputs ==
  { [name |-> "Ann", docId |-> "p1"],
    [name |-> "Bob", docId |-> "p2"],
    [name |-> "Zed", docId |-> ""] }

\* `guest_${name.replace(/\s+/g, '_').toLowerCase()}`
GuestId(name) ==
  CASE name = "Ann" -> "guest_ann"
    [] name = "Bob" -> "guest_bob"
    [] name = "Zed" -> "guest_zed"

\* const userId = docId || guest id
UserIdOf(in) == IF in.docId # "" THEN in.docId ELSE GuestId(in.name)

\* sqliteGetPlayer: the row, or null
sqliteGetPlayer(tbl, playerId) ==
  IF playerId \in DOMAIN tbl THEN tbl[playerId] ELSE NoData

\* sqliteUpsertPlayer: INSERT OR REPLACE INTO players
sqliteUpsertPlayer(tbl, playerId, row) ==
  [k \in DOMAIN tbl \cup {playerId} |-> IF k = playerId THEN row ELSE tbl[k]]

\* (variant: the local row is not looked at)
LocalProfileNone(userId, row) == NoData

\* localProfile ? fromSQLitePlayer(localProfile) : null
LocalProfile(userId, row) ==
  IF row = NoData THEN NoData ELSE fromSQLitePlayer(userId, row)

\* The answer of GET users/<id>
GetStatus(users, userId) ==
  IF ~Reach THEN "throw"
  ELSE IF remoteMode = "reject" THEN "error"
  ELSE IF userId \in DOMAIN users THEN "ok"
  ELSE "notfound"

\* getUserProfile: the profile built from the fetched document
FetchedProfile(userId, doc) ==
  [uid |-> userId,
   displayName |-> IF doc.displayName = "" THEN "Guest" ELSE doc.displayName,
   createdAt |-> IF doc.createdAt = 0 THEN now ELSE doc.createdAt,
   updatedAt |-> IF doc.updatedAt = 0 THEN now ELSE doc.updatedAt,
   count_win |-> doc.count_win]

\* createInitialProfile: PATCH users/<id> with the whole document and no
\* update mask: the document is created or replaced when the request is
\* accepted
CreateDoc(users, userId, name) ==
  IF Accept
  THEN [k \in DOMAIN users \cup {userId} |->
          IF k = userId
          THEN [displayName |-> name, createdAt |-> now, updatedAt |-> now,
                count_win |-> 0]
          ELSE users[k]]
  ELSE users

\* updateUserProfile: PATCH users/<id> with updateMask displayName, updatedAt:
\* the two fields are written, the others are kept; a missing document is
\* created with the two fields
RenameDoc(users, userId, name) ==
  IF Accept
  THEN [k \in DOMAIN users \cup {userId} |->
          IF k = userId
          THEN (IF k \in DOMAIN users
                THEN [users[k] EXCEPT !.displayName = name, !.updatedAt = now]
                ELSE [displayName |-> name, createdAt |-> 0, updatedAt |-> now,
                      count_win |-> 0])
          ELSE users[k]]
  ELSE users

\* The row updateUserProfile / createInitialProfile hand to
\* sqliteUpsertPlayer: existing?.x ?? default
RenamedRow(existing, name) ==
  [player_name |-> name,
   player_created_date |-> IF existing = NoData THEN now
                           ELSE existing.player_created_date,
   player_updated_date |-> now,
   count_win |-> IF existing = NoData THEN 0 ELSE existing.count_win,
   count_lose |-> IF existing = NoData THEN 0 ELSE existing.count_lose]

\* (variant: the player is built from the name alone)
PlayerOfGuest(profile) ==
  [player_id |-> GuestId(profile.displayName),
   player_name |-> profile.displayName,
   player_created_date |-> profile.createdAt,
   count_win |-> profile.count_win, count_lose |-> 0]

\* createOrGetPlayer: return { player_id: profile.uid, ... }
PlayerOf(profile) ==
  [player_id |-> profile.uid, player_name |-> profile.displayName,
   player_created_date |-> profile.createdAt,
   count_win |-> profile.count_win, count_lose |-> 0]

\* export async function createOrGetPlayer(name, docId), up to the first
\* await: getUserProfile(userId) is entered
PlayerStart(t) ==
  /\ CanStart(t)
  /\ started.player < MaxPlayers
  /\ started' = [started EXCEPT !.player = @ + 1]
  /\ \E in \in PlayerInputs :
       /\ tasks' = [tasks EXCEPT ![t] =
                      [IdleTask EXCEPT
                         !.op = "createOrGetPlayer", !.pc = "glocal",
                         !.call = [userId |-> UserIdOf(in), name |-> in.name]]]
       /\ hist' = [hist EXCEPT !.pl.overlap =
                     @ \/ \E u \in Tasks : tasks[u].op = "createOrGetPlayer"]
  /\ UNCHANGED <<screenVars, envVars, monVars, localVars, remoteVars, pendingQueue,
                 drainVars, usedIds, now>>

\* export async function getUserProfile(userId), called on its own (by
\* initAuth and getPlayerById), up to the first await
ProfileStart(t) ==
  /\ CanStart(t)
  /\ started.profile < MaxProfiles
  /\ started' = [started EXCEPT !.profile = @ + 1]
  /\ \E userId \in {"p1", "p2"} :
       tasks' = [tasks EXCEPT ![t] =
                   [IdleTask EXCEPT !.op = "getUserProfile", !.pc = "glocal",
                                    !.call = [userId |-> userId, name |-> ""],
                                    !.hide = Renamed(userId)]]
  /\ UNCHANGED <<screenVars, envVars, monVars, localVars, remoteVars, pendingQueue,
                 drainVars, usedIds, now, hist>>

\* getUserProfile returns profile (NoData for null).  A call on its own
\* ends; createOrGetPlayer returns the player of a profile, and with no
\* profile it enters createInitialProfile, which sends its PATCH.
ProfileReturn(t, tk, profile) ==
  IF tk.op = "getUserProfile"
  THEN /\ tasks' = [tasks EXCEPT ![t] = IdleTask]
       /\ hist' = [hist EXCEPT !.profile = [res |-> profile, want |-> tk.hide,
                                            id |-> tk.call.userId,
                                            calls |-> @.calls + 1]]
  ELSE IF profile # NoData
  THEN /\ tasks' = [tasks EXCEPT ![t] = IdleTask]
       /\ hist' = [hist EXCEPT !.pl.last = PlayerOf(profile),
                               !.pl.asked = tk.call.userId,
                               !.pl.st = tk.st,
                               !.pl.returned = @ \cup {tk.call.userId},
                               !.pl.again = @ \cup
                                  ({tk.call.userId} \cap hist.pl.returned),
                               !.pl.second =
                                  IF tk.call.userId \in hist.pl.returned
                                  THEN [@ EXCEPT ![tk.call.userId] =
                                          PlayerOf(profile)]
                                  ELSE @]
  ELSE /\ tasks' = [tasks EXCEPT ![t] = [tk EXCEPT !.pc = "cpatch"]]
       /\ hist' = [hist EXCEPT !.pl.creates =
                     [@ EXCEPT ![tk.call.userId] = @ + 1]]

\* const localProfile = await sqliteGetPlayer(userId); checkNetworkStatus()
ProfileLocal(t) ==
  /\ tasks[t].pc = "glocal"
  /\ tasks' = [tasks EXCEPT ![t].pc = "gnet",
                            ![t].data = sqliteGetPlayer(players,
                                                        tasks[t].call.userId)]
  /\ UNCHANGED <<screenVars, envVars, monVars, localVars, remoteVars, pendingQueue,
                 drainVars, started, usedIds, now, hist>>

\* const online = await checkNetworkStatus(); if (!online) return the local
\* profile or null; else the GET is sent
ProfileNet(t) ==
  LET tk == tasks[t]
  IN /\ tk.pc = "gnet"
     /\ isConnected' = net
     /\ IF ~net
        THEN ProfileReturn(t, [tk EXCEPT !.st = "offline"],
                           LocalProfile(tk.call.userId, tk.data))
        ELSE /\ tasks' = [tasks EXCEPT ![t].pc = "gfetch"]
             /\ UNCHANGED hist
     /\ UNCHANGED <<screenVars, envVars, netEvents, localVars, remoteVars, pendingQueue,
                    drainVars, started, usedIds, now>>

\* const res = await fetch(url): with res.ok the profile is built and
\* cacheUserProfile is called; a throw or another answer returns the local
\* profile or null
ProfileFetch(t) ==
  LET tk == tasks[t]
      st == GetStatus(remoteUsers, tk.call.userId)
  IN /\ tk.pc = "gfetch"
     /\ IF st = "ok"
        THEN /\ tasks' = [tasks EXCEPT ![t].pc = "gcache", ![t].st = st,
                            ![t].got = <<FetchedProfile(tk.call.userId,
                                           remoteUsers[tk.call.userId])>>]
             /\ UNCHANGED hist
        ELSE ProfileReturn(t, [tk EXCEPT !.st = st],
                           LocalProfile(tk.call.userId, tk.data))
     /\ UNCHANGED <<screenVars, envVars, monVars, localVars, remoteVars, pendingQueue,
                    drainVars, started, usedIds, now>>

\* await cacheUserProfile(profile); return profile
ProfileCache(t) ==
  LET tk == tasks[t]
  IN /\ tk.pc = "gcache"
     /\ players' = cacheUserProfile(players, tk.got[1])
     /\ ProfileReturn(t, tk, tk.got[1])
     /\ UNCHANGED <<screenVars, envVars, monVars, scores, pendingDeleted, remoteVars,
                    pendingQueue, drainVars, started, usedIds, now>>

\* createInitialProfile: await fetch(createUrl, PATCH) resolves or throws
\* (caught); sqliteGetPlayer is called
CreatePatch(t) ==
  LET tk == tasks[t]
  IN /\ tk.pc = "cpatch"
     /\ remoteUsers' = CreateDoc(remoteUsers, tk.call.userId, tk.call.name)
     /\ tasks' = [tasks EXCEPT ![t].pc = "clocal",
                               ![t].st = IF Accept THEN "ok"
                                         ELSE IF Reach THEN "error" ELSE "throw"]
     /\ hist' = [hist EXCEPT !.pl.accepted =
                   IF Accept THEN @ \cup {tk.call.userId} ELSE @]
     /\ UNCHANGED <<screenVars, envVars, monVars, localVars, remote, pendingQueue,
                    drainVars, started, usedIds, now>>

\* const existing = await sqliteGetPlayer(userId);
CreateLocal(t) ==
  /\ tasks[t].pc = "clocal"
  /\ tasks' = [tasks EXCEPT ![t].pc = "cupsert",
                            ![t].data = sqliteGetPlayer(players,
                                                        tasks[t].call.userId)]
  /\ UNCHANGED <<screenVars, envVars, monVars, localVars, remoteVars, pendingQueue,
                 drainVars, started, usedIds, now, hist>>

\* await sqliteUpsertPlayer({...}); createInitialProfile returns and
\* createOrGetPlayer returns the player of the profile it constructs
CreateUpsert(t) ==
  LET tk == tasks[t]
      profile == [uid |-> tk.call.userId, displayName |-> tk.call.name,
                  createdAt |-> now, updatedAt |-> now, count_win |-> 0]
  IN /\ tk.pc = "cupsert"
     /\ players' = sqliteUpsertPlayer(players, tk.call.userId,
                                      RenamedRow(tk.data, tk.call.name))
     /\ tasks' = [tasks EXCEPT ![t] = IdleTask]
     /\ hist' = [hist EXCEPT !.pl.last = PlayerOf(profile),
                             !.pl.asked = tk.call.userId,
                             !.pl.st = tk.st,
                             !.pl.returned = @ \cup {tk.call.userId},
                             !.pl.again = @ \cup
                                ({tk.call.userId} \cap hist.pl.returned),
                             !.pl.second =
                                IF tk.call.userId \in hist.pl.returned
                                THEN [@ EXCEPT ![tk.call.userId] =
                                        PlayerOf(profile)]
                                ELSE @]
     /\ UNCHANGED <<screenVars, envVars, monVars, scores, pendingDeleted, remoteVars,
                    pendingQueue, drainVars, started, usedIds, now>>

\* export async function updateUserProfile(userId, displayName), up to the
\* first await: the PATCH is sent
RenameStart(t) ==
  /\ CanStart(t)
  /\ started.rename < MaxRenames
  /\ started' = [started EXCEPT !.rename = @ + 1]
  /\ tasks' = [tasks EXCEPT ![t] =
                 [IdleTask EXCEPT !.op = "updateUserProfile", !.pc = "upatch",
                                  !.call = [userId |-> "p1", name |-> "Amy"]]]
  /\ UNCHANGED <<screenVars, envVars, monVars, localVars, remoteVars, pendingQueue,
                 drainVars, usedIds, now, hist>>

\* const res = await fetch(.., PATCH); remoteOk = res.ok, or the throw is
\* caught; sqliteGetPlayer is called
RenamePatch(t) ==
  LET tk == tasks[t]
  IN /\ tk.pc = "upatch"
     /\ remoteUsers' = RenameDoc(remoteUsers, tk.call.userId, tk.call.name)
     /\ tasks' = [tasks EXCEPT ![t].pc = "ulocal", ![t].flag = Accept,
                               ![t].st = IF Accept THEN "ok"
                                         ELSE IF Reach THEN "error" ELSE "throw"]
     /\ UNCHANGED <<screenVars, envVars, monVars, localVars, remote, pendingQueue,
                    drainVars, started, usedIds, now, hist>>

\* const existing = await sqliteGetPlayer(userId);
RenameLocal(t) ==
  /\ tasks[t].pc = "ulocal"
  /\ tasks' = [tasks EXCEPT ![t].pc = "uupsert",
                            ![t].data = sqliteGetPlayer(players,
                                                        tasks[t].call.userId)]
  /\ UNCHANGED <<screenVars, envVars, monVars, localVars, remoteVars, pendingQueue,
                 drainVars, started, usedIds, now, hist>>

\* await sqliteUpsertPlayer({...}); return remoteOk
RenameUpsert(t) ==
  LET tk == tasks[t]
  IN /\ tk.pc = "uupsert"
     /\ players' = sqliteUpsertPlayer(players, tk.call.userId,
                                      RenamedRow(tk.data, tk.call.name))
     /\ tasks' = [tasks EXCEPT ![t] = IdleTask]
     /\ hist' = [hist EXCEPT !.ren = [done |-> TRUE, id |-> tk.call.userId,
                                      name |-> tk.call.name, ok |-> tk.flag,
                                      st |-> tk.st,
                                      before |-> sqliteGetPlayer(players,
                                                   tk.call.userId)]]
     /\ UNCHANGED <<screenVars, envVars, monVars, scores, pendingDeleted, remoteVars,
                    pendingQueue, drainVars, started, usedIds, now>>

\* export async function updatePlayerStats(playerId, isWin): for a win of a
\* player that is not the AI incrementUserWin is entered, else the call
\* returns at once.  The history keeps the call and the player's row.
StatsCall(t) ==
  /\ CanStart(t)
  /\ started.stats < MaxStats
  /\ started' = [started EXCEPT !.stats = @ + 1]
  /\ \E playerId \in {"p1", AI_PLAYER_ID} : \E isWin \in BOOLEAN :
       /\ tasks' = [tasks EXCEPT ![t] =
                      IF Human(playerId) /\ isWin
                      THEN [IdleTask EXCEPT !.op = "updatePlayerStats",
                                            !.pc = "wlocal",
                                            !.call = [userId |-> playerId,
                                                      isWin |-> isWin]]
                      ELSE IdleTask]
       /\ hist' = [hist EXCEPT !.stats =
                     [calls |-> @.calls + 1, id |-> playerId, isWin |-> isWin,
                      returned |-> ~(Human(playerId) /\ isWin),
                      before |-> sqliteGetPlayer(players, playerId),
                      entered |-> IF Human(playerId) /\ isWin
                                  THEN @.entered \cup
                                         {[id |-> playerId, isWin |-> isWin]}
                                  ELSE @.entered]]
  /\ UNCHANGED <<screenVars, envVars, monVars, localVars, remoteVars, pendingQueue,
                 drainVars, usedIds, now>>

\* ------------------------------------------------------------ specification
\* The module has been loaded: the tables are empty, NetInfo is about to
\* report the current state to its listener, and the load-time call
\* "void syncPendingScores()" waits for checkNetworkStatus().
NoRead == [res |-> <<>>, expect |-> {}, hidden |-> {}, online |-> FALSE,
           answered |-> FALSE, local |-> <<>>, got |-> <<>>, banned |-> {}]

NoHistory ==
  [owed |-> 0, dropped |-> FALSE,
   submitted |-> [id \in ScoreIds |-> {}],
   offline |-> {}, confirmed |-> {}, live |-> {}, read |-> NoRead,
   faults |-> {}, gone |-> {}, deleted |-> {}, board |-> NoBoard,
   wins |-> [calls |-> 0, sent |-> 0, done |-> 0, applied |-> 0,
             local |-> 0, remote |-> 0, id |-> "", overlap |-> FALSE],
   pl |-> [last |-> NoData, asked |-> "", st |-> "none", returned |-> {},
           again |-> {}, overlap |-> FALSE, accepted |-> {},
           second |-> [k \in {"p1", "p2", "guest_zed"} |-> NoData],
           creates |-> [k \in {"p1", "p2", "guest_zed"} |-> 0]],
   profile |-> [res |-> NoData, want |-> {}, id |-> "", calls |-> 0],
   ren |-> [done |-> FALSE, id |-> "", name |-> "", ok |-> FALSE,
            st |-> "none", before |-> NoData],
   stats |-> [calls |-> 0, id |-> "", isWin |-> FALSE, returned |-> FALSE,
              before |-> NoData, entered |-> {}],
   tab |-> [op |-> "none", n |-> 0, id |-> NoId, pid |-> "", limit |-> 0,
            res |-> <<>>, before |-> << >>]]

\* ------------------------------------------------- sqlite.ts: the handle
\* Every exported store function starts with `const database = await
\* getDb();`.  Activation 0 of initDatabase is the one sync.ts starts when
\* the module is loaded; activation k > 0 is the one store call k starts
\* from getDb.  The engine actions above take a store call together with
\* its wait in getDb for one step.
MaxStoreCalls == 3

StoreCalls == 1..MaxStoreCalls

Activations == {0} \cup StoreCalls

\* getDb: if (!db) { await initDatabase(); } -- TRUE when the call starts
\* no activation of initDatabase
getDb(handle) == handle

\* A store function is called: const database = await getDb();
StoreCall(k) ==
  /\ dbCalls[k] = "idle"
  /\ \A j \in StoreCalls : j < k => dbCalls[j] # "idle"
  /\ IF getDb(db)
     THEN /\ dbCalls' = [dbCalls EXCEPT ![k] = "run"]
          /\ UNCHANGED inits
     ELSE /\ dbCalls' = [dbCalls EXCEPT ![k] = "getdb"]
          /\ inits' = [inits EXCEPT ![k] = "open"]
  /\ UNCHANGED <<db, roomVars, engineVars>>

\* db = await SQLite.openDatabaseAsync(DATABASE_NAME); the schema statements
\* are submitted
InitOpen(k) ==
  /\ inits[k] = "open"
  /\ db' = TRUE
  /\ inits' = [inits EXCEPT ![k] = "schema"]
  /\ UNCHANGED <<dbCalls, roomVars, engineVars>>

\* openDatabaseAsync rejects: catch (error) { ...; throw error; } -- the
\* module-load call logs it, getDb and the store call reject
InitOpenFails(k) ==
  /\ inits[k] = "open"
  /\ inits' = [inits EXCEPT ![k] = "failed"]
  /\ dbCalls' = [c \in StoreCalls |->
                   IF c = k THEN "rejected" ELSE dbCalls[c]]
  /\ UNCHANGED <<db, roomVars, engineVars>>

\* await db.execAsync(CREATE TABLE IF NOT EXISTS ...) and the index and
\* migration statements finish; getDb returns db! to the store call
InitSchema(k) ==
  /\ inits[k] = "schema"
  /\ inits' = [inits EXCEPT ![k] = "done"]
  /\ dbCalls' = [c \in StoreCalls |->
                   IF c = k THEN "run" ELSE dbCalls[c]]
  /\ UNCHANGED <<db, roomVars, engineVars>>

\* The store call's statement runs on the handle and the call returns
StoreRun(k) ==
  /\ dbCalls[k] = "run"
  /\ dbCalls' = [dbCalls EXCEPT ![k] = "done"]
  /\ UNCHANGED <<db, inits, roomVars, engineVars>>

\* --------------------------------- realtime.ts and the matchmaking screen
\* The players whose devices open the matchmaking screen, and a client that
\* follows a room with pollRoom.
Matchmakers == {"p1", "p2", "p3"}

Watcher == "watch"

Subscribers == Matchmakers \cup {Watcher}

MaxPolls == 2

Room(id, st, p1, p2) ==
  [room_id |-> id, status |-> st, player1_id |-> p1, player2_id |-> p2]

\* null, as rtGetRoom and rtFindWaitingRoom return it
NoRoom == Room("", "null", "", "")

\* let lastData = null, before the first comparison
Unset == Room("", "unset", "", "")

\* The screen: pc is the await startMatchmaking or handleCancel is at, state
\* the React state, room roomIdRef.current, role the side it counts down as
IdleMatch == [pc |-> "idle", state |-> "none", room |-> "", role |-> 0]

\* A subscription: its closure (active, lastData), where its poll is, and
\* history fields: stopped (the stop function has been called), late (the
\* callback was invoked after that), again (a request was issued or a
\* timer set after that)
NoPoll ==
  [fn |-> "none", room |-> "", active |-> FALSE, pc |-> "none",
   lastData |-> Unset, polls |-> 0, stopped |-> FALSE, late |-> FALSE,
   again |-> FALSE]

\* poll() has run up to its await
Subscribed(fn, roomId) ==
  [NoPoll EXCEPT !.fn = fn, !.room = roomId, !.active = TRUE,
                 !.pc = "request"]

HasRoom(rs, roomId) == \E i \in 1..Len(rs) : rs[i].room_id = roomId

RoomOf(rs, roomId) ==
  rs[CHOOSE i \in 1..Len(rs) : rs[i].room_id = roomId]

\* rtGetRoom: the room, null when there is none, the answer is not ok or
\* the fetch throws
rtGetRoom(roomId) ==
  IF net /\ HasRoom(rooms, roomId) THEN RoomOf(rooms, roomId) ELSE NoRoom

Waiting(excludePlayerId) ==
  { i \in 1..Len(rooms) : /\ rooms[i].status = "waiting"
                          /\ rooms[i].player1_id # excludePlayerId }

\* rtFindWaitingRoom: the first room in key order that is waiting and
\* belongs to another player
rtFindWaitingRoom(excludePlayerId) ==
  IF net /\ Waiting(excludePlayerId) # {}
  THEN rooms[CHOOSE i \in Waiting(excludePlayerId) :
               \A j \in Waiting(excludePlayerId) : i <= j]
  ELSE NoRoom

\* rtUpdateRoom(roomId, {player2_id, player2_name, status: 'countdown'}):
\* PATCH rooms/<id>.json writes the given fields, whatever the node holds
\* (a node that was deleted comes back with these fields only)
rtJoin(rs, roomId, userId) ==
  IF HasRoom(rs, roomId)
  THEN [i \in 1..Len(rs) |->
          IF rs[i].room_id = roomId
          THEN [rs[i] EXCEPT !.player2_id = userId, !.status = "countdown"]
          ELSE rs[i]]
  ELSE Append(rs, Room(roomId, "countdown", "", userId))

\* useEffect -> startMatchmaking: setState('searching'); rtFindWaitingRoom
\* is awaited
MatchStart(m) ==
  /\ match[m].pc = "idle"
  /\ match' = [match EXCEPT ![m].pc = "find", ![m].state = "searching"]
  /\ UNCHANGED <<rooms, poll, storeVars, engineVars>>

\* const existingRoom = await rtFindWaitingRoom(userId);
MatchFind(m) ==
  LET existingRoom == rtFindWaitingRoom(m)
  IN /\ match[m].pc = "find"
     /\ match' = [match EXCEPT ![m].pc = IF existingRoom # NoRoom THEN "join"
                                         ELSE "create",
                               ![m].room = existingRoom.room_id]
     /\ UNCHANGED <<rooms, poll, storeVars, engineVars>>

\* const joined = await rtUpdateRoom(existingRoom.room_id, {...});
MatchJoin(m) ==
  /\ match[m].pc = "join"
  /\ rooms' = IF net THEN rtJoin(rooms, match[m].room, m) ELSE rooms
  /\ match' = [match EXCEPT ![m].pc = IF net THEN "get" ELSE "create",
                            ![m].room = IF net THEN @ ELSE ""]
  /\ UNCHANGED <<poll, storeVars, engineVars>>

\* const updatedRoom = await rtGetRoom(..); setState('countdown');
\* startCountdown(updatedRoom!); return;
MatchGet(m) ==
  /\ match[m].pc = "get"
  /\ match' = [match EXCEPT ![m].pc = "done", ![m].state = "countdown",
                            ![m].role = 2]
  /\ UNCHANGED <<rooms, poll, storeVars, engineVars>>

\* const newRoomId = await rtCreateRoom(roomData); on null the error state;
\* else setState('waiting') and rtSubscribeToRoom(newRoomId, ...).  The
\* generated key is written as the creator's.
MatchCreate(m) ==
  /\ match[m].pc = "create"
  /\ IF net
     THEN /\ rooms' = Append(rooms, Room(m, "waiting", m, ""))
          /\ match' = [match EXCEPT ![m].pc = "sub", ![m].state = "waiting",
                                    ![m].room = m, ![m].role = 1]
          /\ poll' = [poll EXCEPT ![m] = Subscribed("rtSubscribeToRoom", m)]
     ELSE /\ match' = [match EXCEPT ![m].pc = "done", ![m].state = "error"]
          /\ UNCHANGED <<rooms, poll>>
  /\ UNCHANGED <<storeVars, engineVars>>

\* handleCancel: the stop function is called; await rtDeleteRoom if the
\* screen created a room and still waits
Cancel(m) ==
  /\ match[m].pc = "sub"
  /\ poll' = [poll EXCEPT ![m].active = FALSE, ![m].stopped = TRUE]
  /\ match' = [match EXCEPT ![m].pc = IF match[m].state = "waiting"
                                      THEN "cancel" ELSE "gone"]
  /\ UNCHANGED <<rooms, storeVars, engineVars>>

\* await rtDeleteRoom(roomIdRef.current); router.back();
CancelDelete(m) ==
  /\ match[m].pc = "cancel"
  /\ rooms' = IF net THEN SelectSeq(rooms, LAMBDA r : r.room_id # match[m].room)
              ELSE rooms
  /\ match' = [match EXCEPT ![m].pc = "gone"]
  /\ UNCHANGED <<poll, storeVars, engineVars>>

\* A client follows a room with pollRoom(roomId, callback)
WatchStart ==
  /\ poll[Watcher].fn = "none"
  /\ \E i \in 1..Len(rooms) :
       poll' = [poll EXCEPT ![Watcher] = Subscribed("pollRoom", rooms[i].room_id)]
  /\ UNCHANGED <<rooms, match, storeVars, engineVars>>

\* return () => { active = false; } is called by that client
WatchStop ==
  /\ poll[Watcher].active
  /\ poll' = [poll EXCEPT ![Watcher].active = FALSE, ![Watcher].stopped = TRUE]
  /\ UNCHANGED <<rooms, match, storeVars, engineVars>>

\* pollRoom: callback(room) after every answer; rtSubscribeToRoom:
\* if (currentData !== lastData) { lastData = currentData; onUpdate(room); }
CallsBack(p, room) == p.fn = "pollRoom" \/ room # p.lastData

\* The waiting screen's onUpdate: a room in countdown with a player 2
Joined(s, room) ==
  /\ s \in Matchmakers
  /\ room # NoRoom
  /\ room.status = "countdown"
  /\ room.player2_id # ""

\* The request of a poll is answered: the callback, which on the waiting
\* screen calls the stop function and starts the countdown when player 2
\* has joined; then if (active) setTimeout(poll, intervalMs)
PollAnswer(s) ==
  LET p == poll[s]
      room == rtGetRoom(p.room)
      called == CallsBack(p, room)
      joined == called /\ Joined(s, room)
      active == p.active /\ ~joined
  IN /\ p.pc = "request"
     /\ poll' = [poll EXCEPT ![s] =
                   [p EXCEPT !.lastData = IF p.fn = "rtSubscribeToRoom" /\ called
                                          THEN room ELSE @,
                             !.active = active,
                             !.pc = IF active THEN "timer" ELSE "ended",
                             !.late = @ \/ (p.stopped /\ called),
                             !.again = @ \/ (p.stopped /\ active),
                             !.stopped = @ \/ joined]]
     /\ match' = IF joined
                 THEN [match EXCEPT ![s].state = "countdown"]
                 ELSE match
     /\ UNCHANGED <<rooms, storeVars, engineVars>>

\* The timer fires: poll() returns at once when the subscription was
\* stopped, else it sends the next request
PollTimer(s) ==
  LET p == poll[s]
  IN /\ p.pc = "timer"
     /\ p.active => p.polls < MaxPolls
     /\ poll' = [poll EXCEPT ![s] =
                   IF p.active
                   THEN [p EXCEPT !.pc = "request", !.polls = @ + 1,
                                  !.again = @ \/ p.stopped]
                   ELSE [p EXCEPT !.pc = "ended"]]
     /\ UNCHANGED <<rooms, match, storeVars, engineVars>>

\* initDatabase().catch(console.error) has run up to its first await:
\* `db = await SQLite.openDatabaseAsync(DATABASE_NAME)` is pending; no
\* matchmaking screen is open and there is no room
InitScreen ==
  /\ db = FALSE
  /\ inits = [k \in Activations |-> IF k = 0 THEN "open" ELSE "none"]
  /\ dbCalls = [k \in StoreCalls |-> "idle"]
  /\ rooms = <<>>
  /\ match = [m \in Matchmakers |-> IdleMatch]
  /\ poll = [s \in Subscribers |-> NoPoll]

NoCalls == [save |-> 0, legacy |-> 0, read |-> 0, delete |-> 0, boot |-> 0,
            board |-> 0, win |-> 0, player |-> 0, profile |-> 0,
            rename |-> 0, stats |-> 0, apply |-> 0]

Init ==
  /\ net \in BOOLEAN
  /\ remoteMode \in {"ok", "reject", "down"}
  /\ envFlips = 0
  /\ netEvents = <<net>>
  /\ isConnected = TRUE
  /\ scores = << >>
  /\ players = << >>
  /\ pendingDeleted = {}
  /\ remote = {}
  /\ remoteUsers = << >>
  /\ pendingQueue = <<>>
  /\ syncing = TRUE
  /\ tasks = [t \in Tasks |-> IdleTask]
  /\ started = NoCalls
  /\ usedIds = [generated |-> {}, custom |-> {}]
  /\ now = 0
  /\ hist = NoHistory
  /\ InitScreen
  /\ drains = <<NewDrain(<<>>)>>

\* The reconciliation engine under its two save calls
Next ==
  \/ NetFlip
  \/ RemoteFlip
  \/ NetInfoEvent
  \/ checkNetworkStatus
  \/ DrainStep
  \/ SaveStep

Spec == Init /\ [][Next]_vars

\* The process starts: the module-load initDatabase and the first store
\* calls, in every order of their awaits
NextStore ==
  \/ \E k \in StoreCalls : StoreCall(k)
  \/ \E k \in Activations :
       \/ InitOpen(k)
       \/ InitOpenFails(k)
       \/ InitSchema(k)
  \/ \E k \in StoreCalls : StoreRun(k)

SpecStore == Init /\ [][NextStore]_vars

\* The matchmaking screens of the players, with the device network coming
\* and going
InitRooms == Init /\ remoteMode = "ok"

NextRooms ==
  \/ NetFlip
  \/ \E m \in Matchmakers :
       \/ MatchStart(m)
       \/ MatchFind(m)
       \/ MatchJoin(m)
       \/ MatchGet(m)
       \/ MatchCreate(m)
       \/ Cancel(m)
       \/ CancelDelete(m)
  \/ \E s \in Subscribers :
       \/ PollAnswer(s)
       \/ PollTimer(s)

SpecRooms == InitRooms /\ [][NextRooms]_vars

\* The two subscriptions: a player opens the matchmaking screen, waits in
\* the room it created and may cancel, and a client follows that room with
\* pollRoom and may stop, with the device network coming and going
NextWatch ==
  \/ NetFlip
  \/ WatchStart
  \/ WatchStop
  \/ MatchStart("p1")
  \/ MatchFind("p1")
  \/ MatchCreate("p1")
  \/ Cancel("p1")
  \/ CancelDelete("p1")
  \/ \E s \in Subscribers :
       \/ PollAnswer(s)
       \/ PollTimer(s)

SpecWatch == InitRooms /\ [][NextWatch]_vars

\* The reconciliation engine when awaits on the local database can reject
\* inside a drain
NextDrainFault ==
  \/ Next
  \/ DrainFault

SpecDrainFault == Init /\ [][NextDrainFault]_vars

\* The operating system ends the process and the app is opened again: the
\* SQLite file and the Firestore collections stay, the module state is what
\* the module initialisers make it (network.ts: isConnected = true; sync.ts:
\* pendingQueue = [], and the load-time "void syncPendingScores()" has set
\* syncing and waits for checkNetworkStatus()), every call in flight is gone
\* and NetInfo reports the current state to its new listener.
Restart ==
  /\ started.boot < MaxRestarts
  /\ started' = [started EXCEPT !.boot = @ + 1]
  /\ tasks' = [t \in Tasks |-> IdleTask]
  /\ pendingQueue' = <<>>
  /\ syncing' = TRUE
  /\ drains' = <<NewDrain(<<>>)>>
  /\ isConnected' = TRUE
  /\ netEvents' = <<net>>
  /\ hist' = [hist EXCEPT !.owed = 0]
  /\ UNCHANGED <<screenVars, envVars, localVars, remoteVars, usedIds, now>>

\* The reconciliation engine over more than one process lifetime
NextRestart ==
  \/ Next
  \/ Restart

SpecRestart == Init /\ [][NextRestart]_vars

\* The four save calls over a local store whose writes can fail
NextLocalFault ==
  \/ NetInfoEvent
  \/ DrainStep
  \/ SaveStep
  \/ \E t \in Tasks :
       \/ SaveWriteFails(t)
       \/ LegacyStart(t)
       \/ LegacyWrite(t)
       \/ LegacyWriteFails(t)
       \/ LegacyCreate(t)
       \/ LegacyMark(t)

SpecLocalFault == Init /\ [][NextLocalFault]_vars

\* ------------------------------------------ the history and leaderboard screens
\* The device's connectivity changes (as NetFlip, with a budget of its own)
NetChange ==
  /\ envFlips < MaxNetChanges
  /\ net' = ~net
  /\ envFlips' = envFlips + 1
  /\ netEvents' = Append(netEvents, ~net)
  /\ hist' = [hist EXCEPT !.owed = IF ~net THEN @ + 1 ELSE @]
  /\ UNCHANGED <<screenVars, remoteMode, isConnected, localVars, remoteVars,
                 pendingQueue, drainVars, clientVars, now>>

\* The matches an earlier lifetime of the app has left behind: the online
\* match of FtxCalls, whose id is the room id, and the run of TaCalls.
OnlineMatch == CHOOSE c \in FtxCalls : c.dedup
TimeAttackRun == CHOOSE c \in TaCalls : TRUE

\* The same match as the opponent's device submits it
OtherSide(c) ==
  [c EXCEPT !.playerId = c.opponentId, !.opponentId = c.playerId,
            !.playerScore = c.opponentScore, !.opponentScore = c.playerScore]

\* What the two stores can hold for a match id once the load-time drain has
\* ended and no row is left unsynced: the match was not played; saved; saved by
\* another installation of the player (a remote document only); saved by
\* saveFirstToXScore / saveTimeAttackScore, which mark the row synced
\* whatever the create answered (a row only); and for the online match:
\* saved by the opponent's device before this device saved it (whose create
\* was then answered 409).
StoredMatch(kind) ==
  LET call == IF kind = "first_to_x" THEN OnlineMatch ELSE TimeAttackRun
      at == IF kind = "first_to_x" THEN 1 ELSE 3
      row == LocalRow(kind, call, at)
      own == FirebaseData(kind, call, at)
  IN { [row |-> NoData, doc |-> NoData],
       [row |-> [row EXCEPT !.synced = 1], doc |-> own],
       [row |-> NoData, doc |-> own],
       [row |-> [row EXCEPT !.synced = 1], doc |-> NoData] }
     \cup (IF kind = "first_to_x"
           THEN LET other == FirebaseData(kind, OtherSide(call), 2)
                IN { [row |-> [row EXCEPT !.synced = 1], doc |-> other] }
           ELSE {})

\* The players table after the sign-in of p1 (createInitialProfile) and one
\* counted win; the users collection, in which other devices have raised
\* the counts since.
StoredPlayers ==
  [k \in {"p1"} |-> [player_name |-> "Ann", player_created_date |-> 1,
                     player_updated_date |-> 1, count_win |-> 1,
                     count_lose |-> 0]]

StoredUsers ==
  [k \in {"p1", "p2"} |->
     IF k = "p1"
     THEN [displayName |-> "Ann", createdAt |-> 1, updatedAt |-> 2, count_win |-> 2]
     ELSE [displayName |-> "Bob", createdAt |-> 1, updatedAt |-> 1, count_win |-> 1]]

\* The app has been opened over the stores an earlier lifetime left, with at
\* most MaxStored matches in them, and the load-time drain has ended
InitHistory ==
  /\ net = TRUE
  /\ remoteMode \in {"ok", "reject", "down"}
  /\ envFlips = 0
  /\ netEvents = <<net>>
  /\ isConnected = TRUE
  /\ \E m \in [ScoreIds -> StoredMatch("first_to_x") \cup StoredMatch("time_attack")] :
       /\ \A id \in ScoreIds : m[id] \in StoredMatch(KindOf(id))
       /\ Cardinality({ id \in ScoreIds :
                          m[id].row # NoData \/ m[id].doc # NoData }) <= MaxStored
       /\ scores = [id \in { k \in ScoreIds : m[k].row # NoData } |-> m[id].row]
       /\ remote = { [id |-> id, data |-> m[id].doc, by |-> "earlier"] :
                       id \in { k \in ScoreIds : m[k].doc # NoData } }
  /\ players = StoredPlayers
  /\ remoteUsers = StoredUsers
  /\ pendingDeleted = {}
  /\ pendingQueue = <<>>
  /\ syncing = FALSE
  /\ tasks = [t \in Tasks |-> IdleTask]
  /\ started = NoCalls
  /\ usedIds = [generated |-> {}, custom |-> {}]
  /\ now = 3
  /\ hist = NoHistory
  /\ InitScreen
  /\ drains = <<>>

NextHistory ==
  \/ NetChange
  \/ \E t \in Tasks :
       \/ ReadAgain(t)
       \/ ReadLocal(t)
       \/ ReadNet(t)
       \/ ReadPending(t)
       \/ ReadQuery(t)
       \/ ReadCacheSave(t)
       \/ ReadCacheMark(t)
       \/ DeleteStart(t)
       \/ DeleteLocal(t)
       \/ DeleteRemote(t)
       \/ DeletePending(t)
       \/ SyncDeletedNet(t)
       \/ SyncDeletedList(t)
       \/ SyncDeletedDelete(t)
       \/ SyncDeletedRemove(t)
       \/ BoardStart(t)
       \/ BoardLocal(t)
       \/ BoardNet(t)
       \/ BoardQuery(t)
       \/ BoardCache(t)

SpecHistory == InitHistory /\ [][NextHistory]_vars

\* Saves, the load-time drain and the drains the saves start, and the
\* history screen's deletes, while the device loses and regains the network
\* and the remote store answers
NextDeleteDrain ==
  \/ NetFlip
  \/ DrainStep
  \/ SaveStep
  \/ \E t \in Tasks :
       \/ DeleteStart(t)
       \/ DeleteLocal(t)
       \/ DeleteRemote(t)
       \/ DeletePending(t)
       \/ SyncDeletedNet(t)
       \/ SyncDeletedList(t)
       \/ SyncDeletedDelete(t)
       \/ SyncDeletedRemove(t)

InitDeleteDrain == Init /\ remoteMode = "ok"

SpecDeleteDrain == InitDeleteDrain /\ [][NextDeleteDrain]_vars

\* The history screen's deletes with the connectivity monitor at work: the
\* device loses and regains the network, NetInfo notifies the subscriber, and
\* the subscriber's syncPendingScores runs; with every row synced and nothing
\* queued, that drain probes, lists no row and ends.
IdleDrainStep ==
  \E i \in 1..Len(drains) :
    \/ DrainNet(i)
    \/ DrainProbe(i)
    \/ DrainList(i)

NextReconnect ==
  \/ NetChange
  \/ NetInfoEvent
  \/ IdleDrainStep
  \/ \E t \in Tasks :
       \/ DeleteStart(t)
       \/ DeleteLocal(t)
       \/ DeleteRemote(t)
       \/ DeletePending(t)
       \/ SyncDeletedNet(t)
       \/ SyncDeletedList(t)
       \/ SyncDeletedDelete(t)
       \/ SyncDeletedRemove(t)

SpecReconnect == InitHistory /\ [][NextReconnect]_vars

\* The win counter: incrementUserWin is called, again while a call is
\* running or after it, with the network coming and going.  No match is
\* stored.
InitPlayers == InitHistory /\ scores = << >> /\ remote = {}

NextPlayers ==
  \/ NetChange
  \/ \E t \in Tasks :
       \/ WinStart(t)
       \/ WinLocal(t)
       \/ WinRemote(t)

SpecPlayers == InitPlayers /\ [][NextPlayers]_vars

\* ------------------------------------------------------------ stored tables
\* The matches earlier sessions left: against the AI, the online match as
\* this device and as the opponent's device saved it, a match of another
\* player of this device; a time-attack run of either player.
OldCalls(kind) ==
  IF kind = "first_to_x"
  THEN FtxCalls \cup {OtherSide(OnlineMatch)}
       \cup { [c EXCEPT !.playerId = "p2"] : c \in { x \in FtxCalls : ~x.dedup } }
  ELSE TaCalls \cup { [c EXCEPT !.playerId = "p2"] : c \in TaCalls }

\* What the two stores hold for an old match id: nothing; a row saved
\* offline (unsynced); a synced row and its document; a document only
OldMatch(kind) ==
  {[row |-> NoData, doc |-> NoData]}
  \cup UNION { { [row |-> LocalRow(kind, c, at), doc |-> NoData],
                 [row |-> [LocalRow(kind, c, at) EXCEPT !.synced = 1],
                  doc |-> FirebaseData(kind, c, at)],
                 [row |-> NoData, doc |-> FirebaseData(kind, c, at)] } :
               c \in OldCalls(kind), at \in {1, 2} }

\* What the two stores hold for a player: nothing, or a record with one or
\* two wins, last updated at 1 or 2
OldPlayerRows(name) ==
  {NoData} \cup { [player_name |-> name, player_created_date |-> 1,
                   player_updated_date |-> u, count_win |-> w,
                   count_lose |-> 0] : u \in {1, 2}, w \in {1, 2} }

OldPlayerDocs(name) ==
  {NoData} \cup { [displayName |-> name, createdAt |-> 1, updatedAt |-> u,
                   count_win |-> w] : u \in {1, 2}, w \in {1, 2} }

NameOf(k) == IF k = "p1" THEN "Ann" ELSE "Bob"

\* The app has been opened over the tables earlier sessions left: up to
\* MaxOld matches of one kind with the players of InitPlayers, or no match
\* and up to two players.
InitTables ==
  /\ net = TRUE
  /\ remoteMode \in {"ok", "reject", "down"}
  /\ envFlips = 0
  /\ netEvents = <<net>>
  /\ isConnected = TRUE
  /\ \/ \E kind \in {"first_to_x", "time_attack"} :
          LET ids == IF kind = "first_to_x" THEN OldFtxIds ELSE OldTaIds
          IN \E m \in [ids -> OldMatch(kind)] :
               /\ scores = [id \in { k \in ids : m[k].row # NoData } |-> m[id].row]
               /\ remote = { [id |-> id, data |-> m[id].doc, by |-> "earlier"] :
                               id \in { k \in ids : m[k].doc # NoData } }
               /\ players = StoredPlayers
               /\ remoteUsers = StoredUsers
     \/ /\ scores = << >>
        /\ remote = {}
        /\ \E r \in [{"p1", "p2"} -> OldPlayerRows("Ann") \cup OldPlayerRows("Bob")] :
           \E d \in [{"p1", "p2"} -> OldPlayerDocs("Ann") \cup OldPlayerDocs("Bob")] :
             /\ \A k \in {"p1", "p2"} : /\ r[k] \in OldPlayerRows(NameOf(k))
                                        /\ d[k] \in OldPlayerDocs(NameOf(k))
             /\ players = [k \in { j \in {"p1", "p2"} : r[j] # NoData } |-> r[k]]
             /\ remoteUsers = [k \in { j \in {"p1", "p2"} : d[j] # NoData } |-> d[k]]
  /\ pendingDeleted = {}
  /\ pendingQueue = <<>>
  /\ syncing = FALSE
  /\ tasks = [t \in Tasks |-> IdleTask]
  /\ started = NoCalls
  /\ usedIds = [generated |-> {}, custom |-> {}]
  /\ now = 3
  /\ hist = NoHistory
  /\ InitScreen
  /\ drains = <<>>

\* sqliteGetFirstToXScores(playerId, limit) is applied to the table
TableGet ==
  /\ started.apply < MaxApplies
  /\ started' = [started EXCEPT !.apply = @ + 1]
  /\ \E pid \in {"p1", "p2"} : \E limit \in 1..MaxOld :
       hist' = [hist EXCEPT !.tab =
                  [op |-> "get", n |-> @.n + 1, id |-> NoId, pid |-> pid,
                   limit |-> limit, before |-> scores,
                   res |-> sqliteGetScores(scores, "first_to_x", pid, limit)]]
  /\ UNCHANGED <<screenVars, envVars, monVars, localVars, remoteVars, pendingQueue,
                 drainVars, tasks, usedIds, now>>

\* sqliteSaveFirstToXScore(score) / sqliteSaveTimeAttackScore(score) is
\* applied to the table
TableSave ==
  /\ started.apply < MaxApplies
  /\ started' = [started EXCEPT !.apply = @ + 1]
  /\ \E id \in OldFtxIds \cup OldTaIds : \E c \in OldCalls(KindOf(id)) :
       /\ scores' = sqliteSaveScore(scores, id, LocalRow(KindOf(id), c, now))
       /\ hist' = [hist EXCEPT !.tab =
                     [op |-> "save", n |-> @.n + 1, id |-> id, pid |-> "",
                      limit |-> 0, before |-> scores,
                      res |-> <<[id |-> id,
                                 row |-> LocalRow(KindOf(id), c, now)]>>]]
  /\ UNCHANGED <<screenVars, envVars, monVars, players, pendingDeleted, remoteVars,
                 pendingQueue, drainVars, tasks, usedIds, now>>

\* The two table functions applied to the stored tables
NextTables ==
  \/ TableGet
  \/ TableSave

SpecTables == InitTables /\ [][NextTables]_vars

\* The history screen and the leaderboard read the stored tables while the
\* network comes and goes
NextOrder ==
  \/ NetChange
  \/ \E t \in Tasks :
       \/ ReadStart(t)
       \/ ReadLocal(t)
       \/ ReadNet(t)
       \/ ReadPending(t)
       \/ ReadQuery(t)
       \/ ReadCacheSave(t)
       \/ ReadCacheMark(t)
       \/ SyncDeletedNet(t)
       \/ SyncDeletedList(t)
       \/ BoardStart(t)
       \/ BoardLocal(t)
       \/ BoardNet(t)
       \/ BoardQuery(t)
       \/ BoardCache(t)

SpecOrder == InitTables /\ [][NextOrder]_vars

\* createOrGetPlayer and updatePlayerStats calls over the stores of
\* InitPlayers, at most MaxTasks of them running at a time, while the
\* network comes and goes
NextProfiles ==
  \/ NetChange
  \/ \E t \in Tasks :
       \/ PlayerStart(t)
       \/ ProfileLocal(t)
       \/ ProfileNet(t)
       \/ ProfileFetch(t)
       \/ ProfileCache(t)
       \/ CreatePatch(t)
       \/ CreateLocal(t)
       \/ CreateUpsert(t)
       \/ StatsCall(t)
       \/ WinLocal(t)
       \/ WinRemote(t)

SpecProfiles == InitPlayers /\ [][NextProfiles]_vars

\* The profile screen over the stores of InitPlayers: updateUserProfile,
\* getUserProfile, getLeaderboard and updatePlayerStats calls, at most
\* MaxTasks of them running at a time, while the network comes and goes
NextRename ==
  \/ NetChange
  \/ \E t \in Tasks :
       \/ RenameStart(t)
       \/ RenamePatch(t)
       \/ RenameLocal(t)
       \/ RenameUpsert(t)
       \/ ProfileStart(t)
       \/ ProfileLocal(t)
       \/ ProfileNet(t)
       \/ ProfileFetch(t)
       \/ ProfileCache(t)
       \/ StatsCall(t)
       \/ WinLocal(t)
       \/ WinRemote(t)
       \/ BoardStart(t)
       \/ BoardLocal(t)
       \/ BoardNet(t)
       \/ BoardQuery(t)
       \/ BoardCache(t)

SpecRename == InitPlayers /\ [][NextRename]_vars

\* The device is offline for the whole run: every exported call, with the
\* steps that run while NetInfo answers "not connected".
InitOffline == Init /\ ~net /\ remoteMode = "ok"

NextOffline ==
  \/ NetInfoEvent
  \/ \E i \in 1..Len(drains) : DrainNet(i)
  \/ \E t \in Tasks :
       \/ SaveStart(t)
       \/ SaveWinLocal(t)
       \/ SaveWinRemote(t)
       \/ SaveWrite(t)
       \/ SaveNet(t)
       \/ LegacyStart(t)
       \/ LegacyWrite(t)
       \/ LegacyCreate(t)
       \/ LegacyMark(t)
       \/ ReadStart(t)
       \/ ReadLocal(t)
       \/ ReadNet(t)
       \/ ReadPending(t)
       \/ DeleteStart(t)
       \/ DeleteLocal(t)
       \/ DeleteRemote(t)
       \/ DeletePending(t)
       \/ SyncDeletedNet(t)

SpecOffline == InitOffline /\ [][NextOffline]_vars

TypeOK ==
  /\ net \in BOOLEAN
  /\ remoteMode \in {"ok", "reject", "down"}
  /\ isConnected \in BOOLEAN
  /\ syncing \in BOOLEAN
  /\ Len(drains) <= MaxDrains
  /\ DOMAIN scores \subseteq ScoreIds
  /\ pendingDeleted \subseteq ScoreIds
  /\ \A id \in DOMAIN scores : scores[id].synced \in {0, 1}
  /\ \A t \in Tasks : tasks[t].pc = "idle" \/ tasks[t].id \in ScoreIds \cup {NoId}

\* ------------------------------------------------------------------ claims
\* A call of saveFirstToXWithSync / saveTimeAttackWithSync
IsSaveWithSync(tk) == tk.op = "saveWithSync"

\* C1: within one call of saveFirstToXWithSync / saveTimeAttackWithSync the
\* local write of the match has completed before the call issues any remote
\* request: a call that has sent a request has written its row.
C1_LocalWriteBeforeRemote ==
  \A t \in Tasks :
    IsSaveWithSync(tasks[t]) /\ tasks[t].issued => tasks[t].wrote

\* C2: a local match row carries synced = 1 only if a remote create for its
\* id was confirmed (success or already-exists); the model has no cache fill.
C2_SyncedOnlyIfConfirmed ==
  \A id \in DOMAIN scores : scores[id].synced = 1 => id \in hist.confirmed

\* The ids a returned read lists with the sync flag 0
ReadUnsynced(r) ==
  { r.res[i].id : i \in { j \in 1..Len(r.res) : r.res[j].row.synced = 0 } }

\* The rows saved by a returned WithSync call keep the flag 0
SavedStayUnsynced ==
  \A id \in hist.live \cap DOMAIN scores : scores[id].synced = 0

\* C3 as stated: with the network off for the whole run, a read that follows
\* a returned saveFirstToXWithSync / saveTimeAttackWithSync returns the saved
\* record with the sync flag 0, and the flag stays 0.
C3_OfflineReadReturnsSaved ==
  /\ hist.read.expect \subseteq ReadUnsynced(hist.read)
  /\ SavedStayUnsynced

\* C3 amended: with the network off for the whole run, a read that follows a
\* returned save returns the saved record with the sync flag 0 unless the
\* record's id is in the pending-delete table, and the flag stays 0.
C3_OfflineReadReturnsSavedUnlessPendingDelete ==
  /\ (hist.read.expect \ hist.read.hidden) \subseteq ReadUnsynced(hist.read)
  /\ SavedStayUnsynced

\* A read that followed a save has returned the saved record
C3_Witness ==
  /\ ~net
  /\ hist.read.expect # {}
  /\ hist.read.expect \subseteq ReadUnsynced(hist.read)

\* Activation i ends in this step
DrainEnds(i) == i \in 1..Len(drains) /\ drains' = RemoveAt(drains, i)

\* Activation i, ending in this step, passed both probes and none of its
\* creates was refused
RanClean(i) ==
  LET d == drains[i]
  IN /\ d.pc \in {"list", "screate", "smark"}
     /\ ~d.refused
     /\ ~(d.pc = "screate" /\ CreateStatus(remote, d.cur.id) \in {"throw", "error"})

\* Activation i takes a step
DrainMoves(i) ==
  \/ Len(drains') < Len(drains)
  \/ /\ Len(drains') = Len(drains)
     /\ <<drains'[i].pc, drains'[i].kind, drains'[i].cur, drains'[i].toSync,
          drains'[i].scan>>
          # <<drains[i].pc, drains[i].kind, drains[i].cur, drains[i].toSync,
              drains[i].scan>>

\* C4: a remote create for an id the store already holds a document for is
\* answered as a success: no error, the caller goes on to set the local sync
\* flag to 1, and the store keeps exactly one document with that id.
C4_CreateIsIdempotent ==
  [][ /\ \A t \in Tasks :
           /\ tasks[t].pc = "create" /\ tasks'[t].pc # "create"
                /\ Accept /\ HasDoc(remote, tasks[t].id)
              => tasks'[t].pc = "mark" /\ remote' = remote
           /\ tasks[t].pc = "mark" /\ tasks'[t].pc # "mark"
                /\ tasks[t].id \in DOMAIN scores'
              => scores'[tasks[t].id].synced = 1
      /\ \A i \in 1..Len(drains) :
           /\ drains[i].pc \in {"qcreate", "screate"} /\ DrainMoves(i)
                /\ Accept /\ HasDoc(remote, drains[i].cur.id)
              => /\ Len(drains') = Len(drains)
                 /\ drains'[i].pc \in {"qmark", "smark"}
                 /\ drains'[i].cur = drains[i].cur
                 /\ remote' = remote
                 /\ pendingQueue' = pendingQueue
           /\ drains[i].pc \in {"qmark", "smark"} /\ DrainMoves(i)
                /\ drains[i].cur.id \in DOMAIN scores'
              => scores'[drains[i].cur.id].synced = 1
      /\ \A d1, d2 \in remote' : d1.id = d2.id => d1 = d2 ]_vars

\* A save call is about to set the flag after its create met the document
\* that a drain had created for the same id
C4_Witness ==
  \E t \in Tasks : \E d \in remote :
    /\ tasks[t].pc = "mark"
    /\ d.id = tasks[t].id
    /\ d.by \in {"queue", "scan"}
    /\ d.data = tasks[t].data

\* C5: a match saved while offline is synced by the drain that runs once the
\* network is back and the remote store accepts creates: when a drain that
\* passed both probes and had no create refused ends, every match saved
\* offline that was unsynced or queued at its start has synced = 1 and a
\* remote document with the same id exists.
C5_OfflineSaveSyncedByDrain ==
  [][ \A i \in 1..Len(drains) :
        DrainEnds(i) /\ RanClean(i)
        => \A id \in (drains[i].pre \cap hist.offline) \cap DOMAIN scores' :
             scores'[id].synced = 1 /\ HasDoc(remote', id) ]_vars

\* A match saved offline has been uploaded by a drain and marked synced
C5_Witness ==
  \E id \in hist.offline \cap DOMAIN scores : \E d \in remote :
    /\ scores[id].synced = 1
    /\ d.id = id
    /\ d.by \in {"queue", "scan"}
    /\ d.data.is_online = FALSE
    /\ drains = <<>>

\* C6: a remote document created by a drain (queue retry or unsynced-row
\* scan) has the field values of a payload the save call submitted for
\* that id.
C6_DrainUploadsSubmittedPayload ==
  \A d \in remote :
    d.by \in {"queue", "scan"} => d.data \in hist.submitted[d.id]

\* C7: at most one drain executes at a time; a request made while one is
\* in flight starts no activation, so it reads nothing.
C7_SingleDrain ==
  /\ Len(drains) <= 1
  /\ drains # <<>> => syncing

\* A request was dropped while an activation is in flight
C7_Witness ==
  /\ hist.dropped
  /\ Len(drains) = 1
  /\ drains[1].pc # "net"

\* C8: every offline -> online change of connectivity is notified to the
\* subscribers with connected = true (and so invokes syncPendingScores):
\* once NetInfo has delivered all its events none is owed.
C8_EveryReconnectNotified ==
  netEvents = <<>> => hist.owed = 0

\* Nothing is running and nothing is about to run
Quiescent ==
  /\ drains = <<>>
  /\ netEvents = <<>>
  /\ \A t \in Tasks : tasks[t].pc = "idle"

\* C9 as stated: after a dropped drain request every unsynced or queued
\* match is eventually marked synced while the network is online and the
\* remote store accepts creates; so when nothing is left to run in such a
\* state, and every reconnect was notified, no row is unsynced.
C9_DroppedRequestCaughtUp ==
  Quiescent /\ hist.dropped /\ Accept /\ hist.owed = 0 => UnsyncedIds = {}

\* C9 amended: nothing retries a dropped request by itself; the next drain
\* that is triggered catches up: when a drain that started after the drop,
\* passed both probes and had no create refused ends, every match that was
\* unsynced or queued at its start is marked synced.
C9_NextDrainCatchesUp ==
  [][ \A i \in 1..Len(drains) :
        DrainEnds(i) /\ RanClean(i) /\ drains[i].late
        => \A id \in drains[i].pre \cap DOMAIN scores' :
             scores'[id].synced = 1 ]_vars

\* A drain that started after a drop is at its last await, with a match
\* that was unsynced at its start now marked synced
C9_Witness ==
  \E i \in 1..Len(drains) :
    /\ drains[i].late /\ ~drains[i].refused
    /\ drains[i].pc = "list" /\ drains[i].kind = "time_attack"
    /\ \E id \in drains[i].pre \cap DOMAIN scores : scores[id].synced = 1

\* C10 as stated: when a drain ends, every item that was queued at its start
\* is marked synced and removed, or is in the queue; and every item enqueued
\* while it ran is in the queue.
C10_NoQueuedItemLost ==
  [][ \A i \in 1..Len(drains) :
        DrainEnds(i)
        => /\ \A it \in drains[i].seen :
                it \in drains[i].marked \/ it \in Range(pendingQueue')
           /\ \A it \in drains[i].during : it \in Range(pendingQueue') ]_vars

\* C10 amended: when a drain ends, every item that was queued at its start
\* or enqueued while it ran is marked synced and removed, or is in the queue.
C10_QueuedItemSyncedOrKept ==
  [][ \A i \in 1..Len(drains) :
        DrainEnds(i)
        => \A it \in drains[i].seen \cup drains[i].during :
             it \in drains[i].marked \/ it \in Range(pendingQueue') ]_vars

\* An item enqueued while the drain ran was taken, marked synced and removed
C10_Witness ==
  \E i \in 1..Len(drains) : \E it \in drains[i].during :
    /\ it \in drains[i].marked
    /\ it \notin Range(pendingQueue)
    /\ scores[it.id].synced = 1

\* The process is started again in this step
Rebooted == started'.boot # started.boot

\* The ids of the rows the scan of activation i still has to retry
ScanIds(d) == { r.id : r \in d.scan } \cup (IF d.pc = "screate" THEN {d.cur.id} ELSE {})

\* C11: whatever the in-memory queue holds (nothing, after a restart), a
\* drain that passed both probes lists every local row with synced = 0 of
\* the table it scans and retries each; a create that succeeds is followed
\* by the mark, which sets synced = 1; so when a drain that had no create
\* refused ends, every row that was unsynced at its start is synced and has
\* its remote document.
C11_ScanRetriesEveryUnsyncedRow ==
  [][ ~Rebooted =>
      \A i \in 1..Len(drains) :
        /\ drains[i].pc = "list" /\ DrainMoves(i) /\ Len(drains') = Len(drains)
             /\ drains'[i].kind = drains[i].kind
           => ScanIds(drains'[i])
                = { k \in UnsyncedIds : KindOf(k) = drains[i].kind }
        /\ drains[i].pc = "list" /\ DrainMoves(i)
             /\ (Len(drains') < Len(drains) \/ drains'[i].kind # drains[i].kind)
           => { k \in UnsyncedIds : KindOf(k) = drains[i].kind } = {}
        /\ drains[i].pc = "screate" /\ DrainMoves(i)
             /\ CreateStatus(remote, drains[i].cur.id) \in {"ok", "conflict"}
           => /\ Len(drains') = Len(drains)
              /\ drains'[i].pc = "smark"
              /\ drains'[i].cur = drains[i].cur
              /\ drains'[i].scan = drains[i].scan
        /\ drains[i].pc = "smark" /\ DrainMoves(i)
             /\ drains[i].cur.id \in DOMAIN scores'
           => scores'[drains[i].cur.id].synced = 1
        /\ DrainEnds(i) /\ RanClean(i)
           => \A id \in drains[i].pre \cap DOMAIN scores' :
                scores'[id].synced = 1 /\ HasDoc(remote', id) ]_vars

\* After a restart the queue is empty, and the drain, which found no queued
\* item, has uploaded a row that was unsynced when it started and marked it
C11_Witness ==
  /\ started.boot > 0
  /\ pendingQueue = <<>>
  /\ \E i \in 1..Len(drains) : \E id \in drains[i].pre \cap DOMAIN scores :
       \E d \in remote :
         /\ drains[i].seen = {} /\ drains[i].during = {}
         /\ ~drains[i].refused
         /\ drains[i].pc = "list" /\ drains[i].kind = "time_attack"
         /\ scores[id].synced = 1
         /\ d.id = id /\ d.by = "scan"

\* The outcome of the await the call t is at is a failure: the network check
\* answers false, the availability probe times out or throws, the create
\* throws or is answered with an error
AwaitFails(t) ==
  \/ tasks[t].pc = "net" /\ ~net
  \/ tasks[t].pc = "probe" /\ ~Reach
  \/ tasks[t].pc = "create" /\ CreateStatus(remote, tasks[t].id) \in {"throw", "error"}

\* The call t takes a step
TaskMoves(t) == tasks'[t] # tasks[t]

\* The item the call t queues
ItemOf(tk) == [id |-> tk.id, type |-> tk.call.kind, data |-> tk.data]

\* C12: whatever the network check, the availability probe and the remote
\* create answer, saveFirstToXWithSync / saveTimeAttackWithSync goes on to
\* its return (a failed await ends the call normally, with the match queued)
\* and when it returns the match is marked synced or is in pendingQueue.
C12_SaveReturnsSyncedOrQueued ==
  [][ \A t \in Tasks :
        IsSaveWithSync(tasks[t]) /\ TaskMoves(t)
          /\ tasks[t].pc \in {"net", "probe", "create", "mark"}
        => /\ AwaitFails(t)
                => tasks'[t] = IdleTask /\ ItemOf(tasks[t]) \in Range(pendingQueue')
           /\ ~AwaitFails(t) /\ tasks[t].pc # "mark"
                => tasks'[t].pc \in {"probe", "create", "mark"}
           /\ tasks'[t] = IdleTask
                => \/ ItemOf(tasks[t]) \in Range(pendingQueue')
                   \/ /\ tasks[t].id \in DOMAIN scores'
                      /\ scores'[tasks[t].id].synced = 1 ]_vars

\* A call made while the network was on has returned with its match queued
\* and unsynced: the remote store refused the create
C12_Witness ==
  \E j \in 1..Len(pendingQueue) :
    LET id == pendingQueue[j].id
    IN /\ id \in hist.live \ hist.offline
       /\ id \in DOMAIN scores
       /\ scores[id].synced = 0
       /\ net /\ remoteMode = "reject" /\ envFlips = 0

\* C13: when the local write of a match save fails, the fault reaches the
\* caller: every save call whose sqliteSave...Score rejected has rejected.
C13_LocalFaultPropagates ==
  \A f \in hist.faults : f.raised

\* ---------------------------------------------------------------------- C18
\* C18: deleteHistoryScoreByMode leaves a pending-delete entry for its id
\* exactly when its remote delete was answered with a failure (an error
\* status or no answer); an entry is added by no other step, and an entry is
\* removed only by a call whose remote delete of that id was answered ok or
\* not-found.
C18_PendingDeleteFollowsRemoteAnswer ==
  [][ /\ \A t \in Tasks :
           (tasks[t].pc = "dpending" /\ tasks'[t].pc # "dpending")
             => ((tasks[t].id \in pendingDeleted')
                   <=> (tasks[t].st \in {"error", "throw"}))
      /\ \A id \in pendingDeleted' \ pendingDeleted :
           \E t \in Tasks : /\ tasks[t].pc = "dpending"
                            /\ tasks[t].id = id
                            /\ tasks[t].st \in {"error", "throw"}
      /\ \A id \in pendingDeleted \ pendingDeleted' :
           \E t \in Tasks : /\ tasks[t].pc \in {"dpending", "sdrm"}
                            /\ tasks[t].id = id
                            /\ tasks[t].st \in {"ok", "notfound"} ]_vars

\* An id whose delete failed offline was enqueued and its entry was removed
\* again
C18_Witness == \E id \in hist.gone : id \notin pendingDeleted

\* ---------------------------------------------------------------------- C14
\* C14: a read whose remote query fails (an error answer or no answer) does
\* not raise: it returns at that step, and what it returns is its local
\* result: for getFirstToXScores / getTimeAttackScores the local rows it had
\* filtered, none of which has a pending-delete id; for getLeaderboard the
\* local profiles, cut to the limit.
C14_ReadFallsBackToLocal ==
  [][ \A t \in Tasks :
        /\ (tasks[t].pc = "rquery" /\ tasks'[t].pc # "rquery" /\ ~Accept)
             => /\ tasks'[t] = IdleTask
                /\ hist'.read.res = tasks[t].res
                /\ ~hist'.read.answered
                /\ \A e \in Range(hist'.read.res) :
                     /\ e.id \notin tasks[t].hide
                     /\ "synced" \in DOMAIN e.row
        /\ (tasks[t].pc = "lbquery" /\ tasks'[t].pc # "lbquery" /\ ~Accept)
             => /\ tasks'[t] = IdleTask
                /\ hist'.board.res = Limited(tasks[t].res, tasks[t].call.limit)
                /\ ~hist'.board.answered ]_vars

\* An online read whose remote query failed has returned local rows
C14_Witness ==
  /\ hist.read.online
  /\ ~hist.read.answered
  /\ hist.read.res # <<>>


\* ---------------------------------------------------------------------- C15
\* The ids of the entries of a list of rows
IdsOf(s) == { s[j].id : j \in 1..Len(s) }
\* The uids of the entries of a list of profiles
UidsOf(s) == { s[j].uid : j \in 1..Len(s) }

\* C15: an online read whose remote query was answered returns, for every id
\* that both its local rows and the remote rows have, exactly one entry, and
\* that entry carries the remote row; so does getLeaderboard for every uid
\* that both the local and the remote profiles have.
C15_RemoteWinsOnSharedId ==
  /\ (hist.read.online /\ hist.read.answered)
       => \A id \in IdsOf(hist.read.local) \cap IdsOf(hist.read.got) :
            /\ Cardinality({ j \in 1..Len(hist.read.res) :
                               hist.read.res[j].id = id }) = 1
            /\ RowOf(hist.read.res, id) = RowOf(hist.read.got, id)
  /\ (hist.board.online /\ hist.board.answered)
       => \A uid \in UidsOf(hist.board.local) \cap UidsOf(hist.board.got) :
            /\ Cardinality({ j \in 1..Len(hist.board.res) :
                               hist.board.res[j].uid = uid }) = 1
            /\ \E j \in 1..Len(hist.board.res) : \E k \in 1..Len(hist.board.got) :
                 /\ hist.board.got[k].uid = uid
                 /\ hist.board.res[j] = hist.board.got[k]

\* An online read has returned a match that the local row and the remote
\* document record from the two sides
C15_Witness ==
  /\ hist.read.online
  /\ hist.read.answered
  /\ \E id \in IdsOf(hist.read.local) \cap IdsOf(hist.read.got) :
       /\ RowOf(hist.read.local, id).player_id # RowOf(hist.read.got, id).player_id
       /\ id \in IdsOf(hist.read.res)


\* ---------------------------------------------------------------------- C16
\* The read of task t returns in this step with its remote query answered
ReadReturnsAnswered(t) ==
  /\ tasks[t].op = "getScores"
  /\ tasks[t].pc \in {"rquery", "rcache"}
  /\ tasks'[t] = IdleTask
  /\ hist'.read.answered

C17_DeletedStaysAbsent == IdsOf(hist.read.res) \cap hist.read.banned = {}


\* ---------------------------------------------------------------------- C19
\* C19: once the device is online and the remote store answers deletes with
\* ok or not-found, every pending-delete entry is drained and removed; so
\* when the network is back, the reconnect has been notified and handled,
\* and nothing is left to run, no entry is left.
C19_PendingDeletesDrained ==
  (Quiescent /\ Accept /\ isConnected) => pendingDeleted = {}


\* ---------------------------------------------------------------------- C20
\* The local win count of a user id; a player without a row has none
LocalWins(id) == IF id \in DOMAIN players THEN players[id].count_win ELSE 0
RemoteWins(id) ==
  IF id \in DOMAIN remoteUsers THEN remoteUsers[id].count_win ELSE 0

\* C20 (as stated): when two incrementUserWin(id) calls have returned, however
\* their steps were interleaved, the local win count of id is 2 higher than
\* before and the remote increment was sent exactly twice.
C20_TwoIncrementsCounted ==
  (hist.wins.calls = 2 /\ hist.wins.done = 2)
    => /\ LocalWins(hist.wins.id) = hist.wins.local + 2
       /\ hist.wins.sent = 2

\* C20 (amended): ... the local win count of id, if the players table has a
\* row for id, is 2 higher than before; the remote increment was sent
\* exactly twice, and the remote count has risen by the number of commits
\* the remote store accepted.
C20_TwoIncrementsCountedForStoredPlayer ==
  (hist.wins.calls = 2 /\ hist.wins.done = 2)
    => /\ hist.wins.id \in DOMAIN players
            => LocalWins(hist.wins.id) = hist.wins.local + 2
       /\ hist.wins.id \notin DOMAIN players => players = StoredPlayers
       /\ hist.wins.sent = 2
       /\ RemoteWins(hist.wins.id) = hist.wins.remote + hist.wins.applied

\* Two overlapping calls for the stored player have returned, and the remote
\* store has accepted both commits
C20_Witness ==
  /\ hist.wins.calls = 2
  /\ hist.wins.done = 2
  /\ hist.wins.overlap
  /\ hist.wins.applied = 2
  /\ hist.wins.id \in DOMAIN players


\* C21: in every step, the win count of a remote player document that exists
\* either stays as it is or rises by one in the commit step of a win
\* increment, and a profile create changes the remote store only when the
\* document it writes is absent
C21_WinCountOnlyIncremented ==
  [][ /\ \A k \in DOMAIN remoteUsers :
           /\ k \in DOMAIN remoteUsers'
           /\ \/ remoteUsers'[k].count_win = remoteUsers[k].count_win
              \/ /\ remoteUsers'[k].count_win = remoteUsers[k].count_win + 1
                 /\ \E t \in Tasks : /\ tasks[t].pc = "wremote"
                                     /\ tasks[t].call.userId = k
                                     /\ tasks'[t].pc = "idle"
      /\ \A t \in Tasks :
           (tasks[t].pc = "cpatch" /\ tasks'[t].pc = "clocal"
              /\ remoteUsers' # remoteUsers)
             => tasks[t].call.userId \notin DOMAIN remoteUsers ]_vars


\* C22: the AI sentinel id has no document in the remote users collection
\* and no call is about to send a profile create, a rename PATCH or a win
\* increment for it; an updatePlayerStats call sends a win increment only
\* when isWin is true and its id is a human player's id
C22_NoRemoteWriteForAI ==
  /\ AI_PLAYER_ID \notin DOMAIN remoteUsers
  /\ \A t \in Tasks :
       tasks[t].pc \in {"cpatch", "upatch", "wlocal", "wremote"}
         => tasks[t].call.userId # AI_PLAYER_ID
  /\ \A t \in Tasks :
       tasks[t].op = "updatePlayerStats"
         => /\ tasks[t].call.isWin
            /\ tasks[t].call.userId \in {"p1", "p2"}
  /\ \A c \in hist.stats.entered : c.isWin /\ c.id \in {"p1", "p2"}
  /\ hist.wins.sent > 0 => hist.stats.entered # {}

\* updatePlayerStats('ai_computer', true) has returned, a profile create has
\* been sent, and nothing is running
C22_Witness ==
  /\ hist.stats.calls = 1
  /\ hist.stats.id = AI_PLAYER_ID
  /\ hist.stats.isWin
  /\ hist.stats.returned
  /\ hist.pl.creates["guest_zed"] > 0
  /\ \A t \in Tasks : tasks[t].pc = "idle"


\* C23: when updatePlayerStats(id, false) has returned for a human player
\* who has a row in the local players table, the row's loss count is one
\* above the count the call found
C23_LossCounted ==
  (/\ hist.stats.calls = 1
   /\ hist.stats.returned
   /\ ~hist.stats.isWin
   /\ Human(hist.stats.id)
   /\ hist.stats.before # NoData
   /\ hist.stats.id \in DOMAIN players)
    => players[hist.stats.id].count_lose = hist.stats.before.count_lose + 1


\* C24 (as stated): when createOrGetPlayer has returned twice, one call
\* after the other, for an id that had no record, one create was issued,
\* the second call returned a player with that id, and the local table and
\* the remote collection each hold the record of the id
C24_OneRecordInEachStore ==
  ("guest_zed" \in hist.pl.again /\ ~hist.pl.overlap)
    => /\ hist.pl.creates["guest_zed"] = 1
       /\ hist.pl.second["guest_zed"].player_id = "guest_zed"
       /\ "guest_zed" \in DOMAIN players
       /\ "guest_zed" \in DOMAIN remoteUsers

\* C24 (amended): ... one create was issued, the second call returned a
\* player with that id, the local table holds the record of the id, and
\* the remote collection holds it exactly when the PATCH of the one create
\* was accepted
C24_OneCreateOneLocalRecord ==
  ("guest_zed" \in hist.pl.again /\ ~hist.pl.overlap)
    => /\ hist.pl.creates["guest_zed"] = 1
       /\ hist.pl.second["guest_zed"].player_id = "guest_zed"
       /\ "guest_zed" \in DOMAIN players
       /\ ("guest_zed" \in DOMAIN remoteUsers
             <=> "guest_zed" \in hist.pl.accepted)

\* Both calls have returned, the create of the first was accepted and the
\* second got the profile from the remote store
C24_Witness ==
  /\ "guest_zed" \in hist.pl.again
  /\ ~hist.pl.overlap
  /\ "guest_zed" \in hist.pl.accepted
  /\ hist.pl.st = "ok"
  /\ \A t \in Tasks : tasks[t].pc = "idle"


\* C25: every createOrGetPlayer call that has returned, whatever the remote
\* store answered (device offline, fetch thrown, answer not ok, create
\* failed), returned a player whose id is the requested id; and a running
\* call always has its next step to take, so none ends in a fault
C25_PlayerHasRequestedId ==
  /\ hist.pl.asked # ""
       => /\ hist.pl.last # NoData
          /\ hist.pl.last.player_id = hist.pl.asked
          /\ hist.pl.st \in {"offline", "throw", "error", "notfound", "ok"}
  /\ \A t \in Tasks :
       tasks[t].op = "createOrGetPlayer"
         => ENABLED (\/ ProfileLocal(t) \/ ProfileNet(t) \/ ProfileFetch(t)
                     \/ ProfileCache(t) \/ CreatePatch(t) \/ CreateLocal(t)
                     \/ CreateUpsert(t))

\* A call for an id with no record has returned its player after the
\* lookup found nothing and the create PATCH threw
C25_Witness ==
  /\ hist.pl.asked = "guest_zed"
  /\ hist.pl.again = {}
  /\ hist.pl.st = "throw"
  /\ hist.pl.last.player_id = "guest_zed"
  /\ "guest_zed" \notin DOMAIN remoteUsers


\* C26: the step in which updateUserProfile(id, name) writes the local row
\* and returns leaves the row with the new name, with the creation
\* timestamp and the win and loss counts the row had before the step, and
\* returns true exactly when the remote PATCH was answered ok
C26_RenameKeepsRow ==
  [][ \A t \in Tasks :
        (tasks[t].pc = "uupsert" /\ tasks'[t].pc = "idle")
          => LET id == tasks[t].call.userId
             IN /\ id \in DOMAIN players'
                /\ players'[id].player_name = tasks[t].call.name
                /\ id \in DOMAIN players
                     => /\ players'[id].player_created_date
                             = players[id].player_created_date
                        /\ players'[id].count_win = players[id].count_win
                        /\ players'[id].count_lose = players[id].count_lose
                /\ hist'.ren.ok <=> (tasks[t].st = "ok") ]_vars


\* C27: a getUserProfile(id) call and a getLeaderboard call that started
\* after updateUserProfile(id, name) had returned with its remote PATCH
\* failed show the new name for id
C27_FailedRenameShown ==
  /\ (hist.profile.want # {} /\ hist.profile.res # NoData)
       => hist.profile.res.displayName \in hist.profile.want
  /\ hist.board.want # {}
       => \A j \in 1..Len(hist.board.res) :
            hist.board.res[j].uid = hist.ren.id
              => hist.board.res[j].displayName \in hist.board.want


\* C28: the records a getFirstToXScores / getTimeAttackScores call returned
\* are in descending order of creation timestamp, and the players a
\* getLeaderboard call returned are in descending order of win count and,
\* among equal win counts, of last-update timestamp; whether the call
\* returned on the offline path, with the merged remote rows, or with the
\* local rows after the remote query failed
C28_ReadsOrdered ==
  /\ \A i, j \in 1..Len(hist.read.res) :
       i < j => RowCreated(hist.read.res[i]) >= RowCreated(hist.read.res[j])
  /\ \A i, j \in 1..Len(hist.board.res) :
       i < j => \/ hist.board.res[i].count_win > hist.board.res[j].count_win
                \/ /\ hist.board.res[i].count_win = hist.board.res[j].count_win
                   /\ hist.board.res[i].updatedAt >= hist.board.res[j].updatedAt

\* A read has returned two records on the merged path, the newer of which
\* came from the remote store alone
C28_Witness ==
  /\ hist.read.online
  /\ hist.read.answered
  /\ Len(hist.read.res) = 2
  /\ Len(hist.read.local) = 1
  /\ RowCreated(hist.read.res[1]) > RowCreated(hist.read.res[2])
  /\ hist.read.res[2].id = hist.read.local[1].id


\* C29: sqliteGetFirstToXScores(ownerId, limit) returns rows of the table,
\* each once, in which ownerId is the first or the second player; they are
\* in descending order of creation timestamp; it returns all such rows or
\* limit of them, and no row it leaves out is newer than a row it returns
C29_OwnerRowsNewestFirst ==
  hist.tab.op = "get"
    => LET tbl == hist.tab.before
           res == hist.tab.res
           own == { k \in DOMAIN tbl :
                      /\ k \in OldFtxIds
                      /\ \/ tbl[k].player_id = hist.tab.pid
                         \/ tbl[k].player_id1 = hist.tab.pid }
           got == { res[j].id : j \in 1..Len(res) }
       IN /\ got \subseteq own
          /\ Cardinality(got) = Len(res)
          /\ \A j \in 1..Len(res) : res[j].row = tbl[res[j].id]
          /\ Len(res) = (IF Cardinality(own) < hist.tab.limit
                         THEN Cardinality(own) ELSE hist.tab.limit)
          /\ \A i, j \in 1..Len(res) :
               i < j => res[i].row.score01_created_date
                          >= res[j].row.score01_created_date
          /\ \A k \in own \ got : \A j \in 1..Len(res) :
               tbl[k].score01_created_date <= res[j].row.score01_created_date

\* The table holds two rows of the owner, who is the second player of the
\* newer one; with limit 1 that row is returned
C29_Witness ==
  /\ hist.tab.op = "get"
  /\ hist.tab.limit = 1
  /\ Cardinality(DOMAIN hist.tab.before) = 2
  /\ Len(hist.tab.res) = 1
  /\ hist.tab.res[1].row.player_id1 = hist.tab.pid
  /\ \E k \in DOMAIN hist.tab.before :
       /\ hist.tab.before[k].player_id = hist.tab.pid
       /\ hist.tab.before[k].score01_created_date
            < hist.tab.res[1].row.score01_created_date


C32_QueuedItemsUnsynced ==
  /\ \A j \in 1..Len(pendingQueue) :
       /\ pendingQueue[j].id \in DOMAIN scores
       /\ scores[pendingQueue[j].id].synced = 0
  /\ Len(pendingQueue) <= Cardinality({ id \in DOMAIN scores :
                                          scores[id].synced = 0 })

\* C34: the remote win count of the winner of the online match, which is
\* saved under its room id only, has been raised at most once, however
\* often the match was saved
C34_WinnerCountedOnce ==
  "p2" \in DOMAIN remoteUsers => remoteUsers["p2"].count_win <= 1

\* C36: the syncing flag is false whenever no activation of
\* syncPendingScores is executing
C36_FlagFollowsDrain ==
  drains = <<>> => ~syncing

\* An activation has ended on a storage exception, a create has been
\* confirmed in the run, no activation is executing and the flag is false
C36_Witness ==
  /\ \E f \in hist.faults : f.op = "syncPendingScores" /\ f.raised
  /\ drains = <<>>
  /\ ~syncing
  /\ hist.confirmed # {}


\* C33: no step lowers the win count of a player's local row: under every
\* interleaving of incrementUserWin with getUserProfile, getLeaderboard and
\* updateUserProfile the row stays and its count_win does not decrease
C33_LocalWinsNeverDecrease ==
  [][ \A id \in DOMAIN players :
        /\ id \in DOMAIN players'
        /\ players'[id].count_win >= players[id].count_win ]_vars


\* C35: an activation of syncPendingScores that started after the remote
\* deletion of a match had been confirmed to deleteHistoryScoreByMode does
\* not create a remote document with that id out of the pending queue
C35_DeletedNotRecreated ==
  [][ \A d \in remote' \ remote :
        d.by = "queue"
          => \A i \in 1..Len(drains) :
               (drains[i].pc = "qcreate" /\ drains[i].cur.id = d.id)
                 => d.id \notin drains[i].after ]_vars


\* C31: at most one activation of initDatabase is ever started in a process,
\* also when store calls reach getDb before the first one has completed
C31_InitializedOnce ==
  Cardinality({ k \in DOMAIN inits : inits[k] # "none" }) <= 1


\* C37: once the stop function of a subscription (pollRoom or
\* rtSubscribeToRoom) has been called, its callback is not invoked again and
\* no request is sent or timer set for it, also when a request was in
\* flight at the stop
C37_SilentAfterStop ==
  \A s \in DOMAIN poll : ~poll[s].late /\ ~poll[s].again

\* C38: at most one player counts down as player 2 of a room, and the
\* stored player2_id of the room is that player's id
C38_OneSecondPlayer ==
  \A m \in Matchmakers :
    (match[m].role = 2 /\ match[m].state = "countdown")
      => /\ \A o \in Matchmakers \ {m} :
              ~(match[o].role = 2 /\ match[o].state = "countdown"
                /\ match[o].room = match[m].room)
         /\ HasRoom(rooms, match[m].room)
              => RoomOf(rooms, match[m].room).player2_id = m

====
